---- MODULE Spec2Model ----
(***************************************************************************)
(* Timeline engine of openqa-log-visualizer                                *)
(* (app/static/js/timelineRenderer.js): viewport / drag-to-zoom state of   *)
(* every initializeTimeline closure, the scene built by _renderTimeline,   *)
(* and the hover / click handlers bound to the scene's primitives.         *)
(*                                                                         *)
(* Times are exact rationals n/d (the code computes them in floating       *)
(* point; rounding is not modelled).  Pixel x coordinates are relative to  *)
(* the left edge of the svg (clientX - svgRect.left); the vertical pointer *)
(* coordinate is abstracted by the element the pointer is over.            *)
(***************************************************************************)
EXTENDS Integers, Sequences, FiniteSets, TLC

\* ------------------------------------------------------------------ bounds
MaxInits == 2
MaxZooms == 2
MaxReinitZooms == 1
MaxSubmits == 2

\* ---------------------------------------------------------------- geometry
MarginLeft == 120
MarginRight == 50
LanePitch == 40
LaneOffset == 20
MarkerRadius == 5
DragThreshold == 10
ContainerWidth == 270
LabelReach == 45

ChartWidth == ContainerWidth - MarginLeft - MarginRight

\* pointer x positions the environment may produce: one left of the plot
\* group (70), two in the label gutter (75, 80), two inside the plot (150, 200)
Pixels == {70, 75, 80, 150, 200}

Undefined == "undefined"

\* ------------------------------------------------------------- arithmetic
Abs(x) == IF x < 0 THEN -x ELSE x
Min2(a, b) == IF a < b THEN a ELSE b
Max2(a, b) == IF a > b THEN a ELSE b

RECURSIVE GCD(_, _)
GCD(a, b) == IF b = 0 THEN a ELSE GCD(b, a % b)

\* the rational n/m in lowest terms with a positive denominator
Rat(n, m) ==
    LET sn == IF m < 0 THEN -n ELSE n
        sm == Abs(m)
        g  == GCD(Abs(sn), sm)
    IN  [n |-> sn \div g, d |-> sm \div g]

RatLeq(a, b) == a.n * b.d <= b.n * a.d
RatLt(a, b) == a.n * b.d < b.n * a.d
RatOfInt(k) == [n |-> k, d |-> 1]

\* a viewport: start s/d and end e/d over a common denominator, lowest terms
Viewport(s, e, d) ==
    LET g == GCD(GCD(Abs(s), Abs(e)), d)
    IN  [s |-> s \div g, e |-> e \div g, d |-> d \div g]

\* ------------------------------------------------------------------- input
Ev(ts, job, type, mutex, barrier, li, msg) ==
    [timestamp |-> ts, job_id |-> job, type |-> type, mutex |-> mutex,
     barrier |-> barrier, log_index |-> li, message |-> msg]

\* the analyses the engine is initialized with:
\*   1, 2  two-job runs with mutex and barrier pairs
\*   3     every event has the same timestamp
\*   4     a pair names a job that has no event; the color map has no
\*         entry for "barrier"
\*   5     no color map is supplied
\*   6     no event pairs
\*   7     two critical sections (two pairs of one kind)
\*   8     job ids and log positions of several digits
\*   9     a pair whose pair_type is none of the three the code names
Datasets == {1, 2, 3, 4, 5, 6, 7, 8, 9}

\* events are supplied in non-decreasing timestamp order (milliseconds)
EventTable(ds) ==
    CASE ds = 1 ->
         << Ev(0,   "1", "mutex",   "lock1",   Undefined, 0, <<"ansi", "prefix", "create lock1">>),
            Ev(28,  "2", "mutex",   "lock1",   Undefined, 0, <<"prefix", "lock lock1">>),
            Ev(50,  "1", "info",    Undefined, Undefined, 1, <<"plain text">>),
            Ev(80,  "2", "mutex",   "lock1",   Undefined, 1, <<"unlock lock1">>),
            Ev(90,  "1", "barrier", Undefined, "b1",      2, <<"create b1">>),
            Ev(100, "2", "barrier", Undefined, "b1",      2, <<"wait b1">>) >>
      [] ds = 2 ->
         << Ev(0,   "2", "mutex",   "lock1",   Undefined, 0, <<"lock lock1">>),
            Ev(35,  "3", "info",    Undefined, Undefined, 0, <<"ansi", "plain text">>),
            Ev(100, "3", "mutex",   "lock1",   Undefined, 1, <<"unlock lock1">>) >>
      [] ds = 3 ->
         << Ev(40,  "1", "mutex",   "lock1",   Undefined, 0, <<"lock lock1">>),
            Ev(40,  "2", "mutex",   "lock1",   Undefined, 0, <<"unlock lock1">>) >>
      [] ds = 4 ->
         << Ev(0,   "1", "mutex",   "lock1",   Undefined, 0, <<"create lock1">>),
            Ev(28,  "1", "barrier", Undefined, "b1",      1, <<"create b1">>),
            Ev(80,  "2", "mutex",   "lock1",   Undefined, 0, <<"unlock lock1">>),
            Ev(100, "2", "info",    Undefined, Undefined, 1, <<"plain text">>) >>
      [] ds = 5 ->
         << Ev(0,   "1", "mutex",   "lock1",   Undefined, 0, <<"lock lock1">>),
            Ev(80,  "2", "mutex",   "lock1",   Undefined, 0, <<"unlock lock1">>),
            Ev(100, "2", "info",    Undefined, Undefined, 1, <<"plain text">>) >>
      [] ds = 6 ->
         << Ev(0,   "1", "info",    Undefined, Undefined, 0, <<"plain text">>),
            Ev(100, "2", "info",    Undefined, Undefined, 0, <<"prefix", "plain text">>) >>
      [] ds = 7 ->
         << Ev(0,   "1", "mutex",   "lock1",   Undefined, 0, <<"lock lock1">>),
            Ev(10,  "2", "mutex",   "lock2",   Undefined, 0, <<"lock lock2">>),
            Ev(90,  "1", "mutex",   "lock1",   Undefined, 1, <<"unlock lock1">>),
            Ev(100, "2", "mutex",   "lock2",   Undefined, 1, <<"unlock lock2">>) >>
      [] ds = 8 ->
         << Ev(0,   "1",  "info",   Undefined, Undefined, 12, <<"plain text">>),
            Ev(60,  "11", "info",   Undefined, Undefined, 2,  <<"plain text">>),
            Ev(100, "1",  "info",   Undefined, Undefined, 13, <<"prefix", "plain text">>) >>
      [] ds = 9 ->
         << Ev(0,   "1", "mutex",   "lock1",   Undefined, 0, <<"lock lock1">>),
            Ev(40,  "2", "info",    Undefined, Undefined, 0, <<"plain text">>),
            Ev(100, "2", "mutex",   "lock1",   Undefined, 1, <<"unlock lock1">>) >>

\* an event of a job none of whose events is in the supplied event list
GhostEvent == Ev(90, "9", "barrier", Undefined, "b1", 0, <<"wait b1">>)

AllEventsTable == [ds \in Datasets |-> EventTable(ds)]

AllEvents(ds) == AllEventsTable[ds]

\* jobs[jobId].short_name, Undefined when the job (or its name) is missing
ShortNameOf(ds, jobId) ==
    IF jobId = "1" THEN "worker-1"
    ELSE IF jobId = "2" THEN "worker-2"
    ELSE Undefined

Pair(type, mutex, barrier, s, e) ==
    [pair_type |-> type, mutex |-> mutex, barrier |-> barrier,
     start_event |-> s, end_event |-> e]

\* the pairs of analysis ds; ev is its event list
PairsOver(ds, ev) ==
    CASE ds = 1 ->
         << Pair("mutex_create_unlock", "lock1", Undefined, ev[1], ev[4]),
            Pair("mutex_lock_unlock",   "lock1", Undefined, ev[2], ev[4]),
            Pair("barrier_create_wait", Undefined, "b1",    ev[5], ev[6]) >>
      [] ds = 2 ->
         << Pair("mutex_lock_unlock",   "lock1", Undefined, ev[1], ev[3]) >>
      [] ds = 3 ->
         << Pair("mutex_lock_unlock",   "lock1", Undefined, ev[1], ev[2]) >>
      [] ds = 4 ->
         << Pair("barrier_create_wait", Undefined, "b1",    ev[2], GhostEvent),
            Pair("mutex_create_unlock", "lock1", Undefined, ev[1], ev[3]) >>
      [] ds = 5 ->
         << Pair("mutex_lock_unlock",   "lock1", Undefined, ev[1], ev[2]),
            Pair("mutex_create_unlock", "lock1", Undefined, ev[1], ev[2]) >>
      [] ds \in {6, 8} -> << >>
      [] ds = 7 ->
         << Pair("mutex_lock_unlock",   "lock1", Undefined, ev[1], ev[3]),
            Pair("mutex_lock_unlock",   "lock2", Undefined, ev[2], ev[4]) >>
      [] ds = 9 ->
         << Pair("mutex_try_lock",      "lock1", Undefined, ev[1], ev[3]) >>

PairTable(ds) == PairsOver(ds, AllEvents(ds))

EventPairsTable == [ds \in Datasets |-> PairTable(ds)]

EventPairs(ds) == EventPairsTable[ds]

\* whether a typeColorMap object is passed to initializeTimeline
HasColorMap(ds) == ds # 5

\* the types that have an entry in the color map, in insertion order
ColorMapTypes(ds) ==
    IF ~HasColorMap(ds) THEN << >>
    ELSE IF ds = 4 THEN << "mutex" >>
    ELSE << "mutex", "barrier" >>

\* typeColorMap[type] of a supplied map, Undefined when the type has no entry
TypeColorMap(ds, type) ==
    IF ~(\E k \in DOMAIN ColorMapTypes(ds) : ColorMapTypes(ds)[k] = type) THEN Undefined
    ELSE IF type = "mutex" THEN "blue"
    ELSE "green"

\* the labels in the order of Array.prototype.sort (UTF-16 code units)
LabelOrder == << "1", "11", "2", "3", "worker-1", "worker-2" >>

\* ------------------------------------------------------------ pure helpers
\* a || b on possibly-undefined strings
OrElse(a, b) == IF a # Undefined THEN a ELSE b

\* JSON.parse(JSON.stringify(event)): keys whose value is undefined are
\* dropped by stringify (only the optional fields can be undefined); every
\* other field is a string or a number and is read back unchanged
OptionalFields == {"mutex", "barrier"}

JsonRoundTrip(e) ==
    [k \in {f \in DOMAIN e : ~(f \in OptionalFields /\ e[f] = Undefined)} |-> e[k]]

\* property read on a parsed object: a missing key reads as undefined
Field(obj, f) == IF f \in DOMAIN obj THEN obj[f] ELSE Undefined

\* cData.mutex || cData.barrier
PairNameOfData(data) == OrElse(Field(data, "mutex"), Field(data, "barrier"))

\* messages are token sequences: "ansi" stands for an escape sequence,
\* "prefix" for a leading "[level] [pid:n] " group
DropAnsi(msg) == SelectSeq(msg, LAMBDA t : t # "ansi")

_cleanLogMessage(msg) ==
    LET cleaned == DropAnsi(msg)
    IN  IF Len(cleaned) > 0 /\ Head(cleaned) = "prefix" THEN Tail(cleaned) ELSE cleaned

getShortName(ds, jobId) ==
    IF ShortNameOf(ds, jobId) # Undefined THEN ShortNameOf(ds, jobId) ELSE jobId

LabelRank(l) == CHOOSE i \in 1..Len(LabelOrder) : LabelOrder[i] = l

RECURSIVE SortLabels(_)
SortLabels(S) ==
    IF S = {} THEN << >>
    ELSE LET m == CHOOSE x \in S : \A y \in S : LabelRank(x) <= LabelRank(y)
         IN  << m >> \o SortLabels(S \ {m})

\* [...new Set(allEvents.map(e => getShortName(e.job_id)))].sort()
ParticipantsOf(ds) ==
    SortLabels({ getShortName(ds, AllEvents(ds)[i].job_id) : i \in 1..Len(AllEvents(ds)) })

ParticipantsTable == [ds \in Datasets |-> ParticipantsOf(ds)]

participants(ds) == ParticipantsTable[ds]

\* Array.prototype.indexOf (0-based, -1 when absent)
IndexOf(seq, x) ==
    IF \E i \in 1..Len(seq) : seq[i] = x
    THEN (CHOOSE i \in 1..Len(seq) : seq[i] = x /\ \A j \in 1..(i-1) : seq[j] # x) - 1
    ELSE -1

yScale(ds, participant) == IndexOf(participants(ds), participant) * LanePitch + LaneOffset

\* yScale always yields a number (indexOf gives -1 for a missing label)
isNaN(v) == v \notin Int

\* variant: a zero-length domain is not guarded; 0 / 0 is NaN, written 0/0
xScale_Unguarded(vp, ts) ==
    IF vp.e - vp.s = 0 THEN [n |-> 0, d |-> 0]
    ELSE Rat((ts * vp.d - vp.s) * ChartWidth, vp.e - vp.s)

\* xScale for the viewport vp: width/2 on a zero-length domain, else linear
xScale(vp, ts) ==
    IF vp.e - vp.s = 0 THEN Rat(ChartWidth, 2)
    ELSE Rat((ts * vp.d - vp.s) * ChartWidth, vp.e - vp.s)

\* variant: the end bound is exclusive
InView_ExclusiveEnd(vp, ts) == ts * vp.d >= vp.s /\ ts * vp.d < vp.e

\* t >= startTime && t <= endTime
InView(vp, ts) == ts * vp.d >= vp.s /\ ts * vp.d <= vp.e

\* the characters of a job id
Chars(jobId) == IF jobId = "11" THEN << "1", "1" >> ELSE << jobId >>

DigitChars == << "0", "1", "2", "3", "4", "5", "6", "7", "8", "9" >>

\* the decimal digits of a natural number (template literal conversion)
RECURSIVE Digits(_)
Digits(n) ==
    IF n < 10 THEN << DigitChars[n + 1] >>
    ELSE Digits(n \div 10) \o << DigitChars[(n % 10) + 1] >>

\* variant: job id and log position are joined without a separator
MarkerId_NoSeparator(e) ==
    << "event-marker-" >> \o Chars(e.job_id) \o Digits(e.log_index)

\* `event-marker-${event.job_id}-${event.log_index}`, as characters
MarkerId(e) ==
    << "event-marker-" >> \o Chars(e.job_id) \o << "-" >> \o Digits(e.log_index)

\* (typeColorMap && typeColorMap[event.type]) || '#808080'
MarkerColor(ds, type) ==
    IF HasColorMap(ds) /\ TypeColorMap(ds, type) # Undefined
    THEN TypeColorMap(ds, type) ELSE "#808080"

MakeMarker(ds, vp, e) ==
    [event |-> e, eventData |-> JsonRoundTrip(e), id |-> MarkerId(e),
     cx |-> xScale(vp, e.timestamp), cy |-> yScale(ds, getShortName(ds, e.job_id)),
     fill |-> MarkerColor(ds, e.type), faded |-> FALSE]

Markers(ds, vp) ==
    LET evs == SelectSeq(AllEvents(ds), LAMBDA e : InView(vp, e.timestamp))
    IN  [k \in 1..Len(evs) |-> MakeMarker(ds, vp, evs[k])]

\* variant: a rectangle on the start event's lane only
RectsOfPair_StartLaneOnly(ds, vp, p) ==
    LET x1 == xScale(vp, p.start_event.timestamp)
        x2 == xScale(vp, p.end_event.timestamp)
        y1 == yScale(ds, getShortName(ds, p.start_event.job_id))
    IN  IF p.pair_type # "mutex_lock_unlock" THEN << >>
        ELSE << [x1 |-> x1, x2 |-> x2, y |-> y1 - 10, pairName |-> p.mutex,
                 opacity |-> "css"] >>

\* the rectangles one pair contributes (one per endpoint lane)
RectsOfPair(ds, vp, p) ==
    LET x1 == xScale(vp, p.start_event.timestamp)
        x2 == xScale(vp, p.end_event.timestamp)
        y1 == yScale(ds, getShortName(ds, p.start_event.job_id))
        y2 == yScale(ds, getShortName(ds, p.end_event.job_id))
        r(y) == [x1 |-> x1, x2 |-> x2, y |-> y - 10, pairName |-> p.mutex, opacity |-> "css"]
    IN  IF isNaN(y1) \/ isNaN(y2) \/ p.pair_type # "mutex_lock_unlock" THEN << >>
        ELSE IF p.start_event.job_id # p.end_event.job_id THEN << r(y1), r(y2) >>
        ELSE << r(y1) >>

\* typeColorMap[eventType] || '#333' (evaluated only with a color map)
ArrowColor(ds, p) ==
    LET eventType == IF p.mutex # Undefined THEN "mutex" ELSE "barrier"
    IN  IF TypeColorMap(ds, eventType) # Undefined THEN TypeColorMap(ds, eventType) ELSE "#333"

ArrowsOfPair(ds, vp, p) ==
    LET y1 == yScale(ds, getShortName(ds, p.start_event.job_id))
        y2 == yScale(ds, getShortName(ds, p.end_event.job_id))
    IN  IF isNaN(y1) \/ isNaN(y2) \/ p.pair_type = "mutex_lock_unlock" THEN << >>
        ELSE << [x1 |-> xScale(vp, p.start_event.timestamp), y1 |-> y1,
                 x2 |-> xScale(vp, p.end_event.timestamp), y2 |-> y2,
                 stroke |-> ArrowColor(ds, p), pairName |-> OrElse(p.mutex, p.barrier),
                 display |-> "none"] >>

RECURSIVE FlatMap(_, _, _)
FlatMap(Op(_), seq, k) ==
    IF k > Len(seq) THEN << >> ELSE Op(seq[k]) \o FlatMap(Op, seq, k + 1)

\* the least element of a set of indices, 0 when the set is empty
FirstOf(S) == IF S = {} THEN 0 ELSE CHOOSE k \in S : \A j \in S : k <= j

\* the arrow branch reads typeColorMap[eventType]: without a color map that
\* is a property read on undefined, a TypeError.  ThrowsIn is the index of
\* the first of the pairs whose processing throws, 0 when none does
ThrowsIn(ds, pairs) ==
    FirstOf({ k \in DOMAIN pairs :
                ~HasColorMap(ds) /\ pairs[k].pair_type # "mutex_lock_unlock" })

ThrowsAt(ds) == ThrowsIn(ds, EventPairs(ds))

\* the elements of a forEach loop that are processed when the callback
\* throws at index t (0: it never throws)
Completed(seq, t) == IF t = 0 THEN seq ELSE SubSeq(seq, 1, t - 1)

\* the pairs the forEach loop completes
PairsDrawn(ds) == Completed(EventPairs(ds), ThrowsAt(ds))

PairsDrawnTable == [ds \in Datasets |-> PairsDrawn(ds)]

\* the pairs out of a list that have an endpoint without a lane
LanelessIn(ds, pairs) ==
    { k \in DOMAIN pairs :
         \/ isNaN(yScale(ds, getShortName(ds, pairs[k].start_event.job_id)))
         \/ isNaN(yScale(ds, getShortName(ds, pairs[k].end_event.job_id))) }

\* the pairs console.warn reports as skipped
SkippedPairs(ds) == LanelessIn(ds, PairsDrawnTable[ds])

Rects(ds, vp) == FlatMap(LAMBDA p : RectsOfPair(ds, vp, p), PairsDrawnTable[ds], 1)
Arrows(ds, vp) == FlatMap(LAMBDA p : ArrowsOfPair(ds, vp, p), PairsDrawnTable[ds], 1)

Lifelines(ds) ==
    [k \in 1..Len(participants(ds)) |->
        [label |-> participants(ds)[k], y |-> yScale(ds, participants(ds)[k]),
         x1 |-> 0, x2 |-> ChartWidth]]

HiddenTooltip == [opacity |-> "", html |-> << >>]

\* the exception the pair loop raises, Undefined when it completes
LoopError(ds) == IF ThrowsAt(ds) # 0 THEN "TypeError" ELSE Undefined

\* a child of the plot group g
Child(kind, idx) == [kind |-> kind, idx |-> idx]

\* parent.insertBefore(x, ref) on the sequence of children
InsertBefore(seq, ref, x) ==
    LET at == CHOOSE n \in DOMAIN seq : seq[n] = ref
    IN  SubSeq(seq, 1, at - 1) \o << x >> \o SubSeq(seq, at, Len(seq))

\* variant: the rectangles are appended to the plot group
RECURSIVE InsertRects_Appended(_, _, _)
InsertRects_Appended(seq, j, nr) ==
    IF j > nr THEN seq
    ELSE InsertRects_Appended(Append(seq, Child("rect", j)), j + 1, nr)

\* g.insertBefore(rect, arrowLayer) for the rectangles j..nr
RECURSIVE InsertRects(_, _, _)
InsertRects(seq, j, nr) ==
    IF j > nr THEN seq
    ELSE InsertRects(InsertBefore(seq, Child("arrowLayer", 0), Child("rect", j)), j + 1, nr)

\* the children of the plot group in document (paint) order after a render
\* of nl lifelines, nm markers and nr rectangles: lifelines, time axis,
\* arrow layer and markers are appended in this order, the rectangles are
\* inserted before the arrow layer afterwards
PlotChildren(nl, nm, nr) ==
    InsertRects([k \in 1..nl |-> Child("lifeline", k)]
                  \o << Child("timeAxis", 0), Child("arrowLayer", 0) >>
                  \o [k \in 1..nm |-> Child("marker", k)],
                1, nr)

\* the two axis labels: the viewport's start and end as local time strings
AxisLabels(vp) == << << "time", vp.s, vp.d >>, << "time", vp.e, vp.d >> >>

\* variant: lanes are computed from the events inside the viewport
_renderTimeline_FilteredLanes(i, ds, vp) ==
    LET shown == SortLabels({ getShortName(ds, Markers(ds, vp)[k].event.job_id) :
                                k \in DOMAIN Markers(ds, vp) })
    IN  [by |-> i, ds |-> ds, vp |-> vp,
         lifelines |-> [k \in 1..Len(shown) |->
                          [label |-> shown[k], y |-> (k - 1) * LanePitch + LaneOffset,
                           x1 |-> 0, x2 |-> ChartWidth]],
         axis |-> AxisLabels(vp),
         markers |-> Markers(ds, vp),
         rects |-> Rects(ds, vp),
         arrows |-> Arrows(ds, vp),
         tooltip |-> HiddenTooltip,
         selections |-> {},
         warnings |-> SkippedPairs(ds),
         error |-> LoopError(ds)]

\* the content of the container after _renderTimeline(ds, vp) run by
\* closure i; error is the exception the pair loop raised, if any
_renderTimeline(i, ds, vp) ==
    [by |-> i, ds |-> ds, vp |-> vp,
     lifelines |-> Lifelines(ds),
     axis |-> AxisLabels(vp),
     markers |-> Markers(ds, vp),
     rects |-> Rects(ds, vp),
     arrows |-> Arrows(ds, vp),
     tooltip |-> HiddenTooltip,
     selections |-> {},
     warnings |-> SkippedPairs(ds),
     error |-> LoopError(ds)]

\* the container before anything was rendered into it
EmptyContainer ==
    [by |-> 0, ds |-> 0, vp |-> Viewport(0, 0, 1),
     lifelines |-> << >>, axis |-> << >>, markers |-> << >>, rects |-> << >>,
     arrows |-> << >>, tooltip |-> HiddenTooltip, selections |-> {},
     warnings |-> {}, error |-> Undefined]

HasPairType(ds, type) ==
    \E k \in DOMAIN EventPairs(ds) : EventPairs(ds)[k].pair_type = type

\* typeColorMap[type] || '#333' in the synchronization legend
SignalColor(ds, type) ==
    IF TypeColorMap(ds, type) # Undefined THEN TypeColorMap(ds, type) ELSE "#333"

\* variant: one entry is pushed for every pair
_renderSynchronizationLegend_PerPair(ds) ==
    [k \in DOMAIN EventPairs(ds) |->
        IF EventPairs(ds)[k].pair_type = "mutex_create_unlock"
        THEN [label |-> "Mutex Signal", color |-> SignalColor(ds, "mutex")]
        ELSE IF EventPairs(ds)[k].pair_type = "barrier_create_wait"
        THEN [label |-> "Barrier Signal", color |-> SignalColor(ds, "barrier")]
        ELSE [label |-> "Critical Section", color |-> "css"]]

\* the entries _renderSynchronizationLegend appends to #sync-legend
_renderSynchronizationLegend(ds) ==
    (IF HasPairType(ds, "mutex_create_unlock")
     THEN << [label |-> "Mutex Signal", color |-> SignalColor(ds, "mutex")] >> ELSE << >>)
    \o (IF HasPairType(ds, "barrier_create_wait")
        THEN << [label |-> "Barrier Signal", color |-> SignalColor(ds, "barrier")] >> ELSE << >>)
    \o (IF HasPairType(ds, "mutex_lock_unlock")
        THEN << [label |-> "Critical Section", color |-> "css"] >> ELSE << >>)

\* type.charAt(0).toUpperCase() + type.slice(1)
Capitalize(type) ==
    CASE type = "mutex" -> "Mutex"
      [] type = "barrier" -> "Barrier"
      [] OTHER -> type

\* the entries the render appends to #timeline-legend
LegendItems(ds) ==
    [k \in DOMAIN ColorMapTypes(ds) |->
        [color |-> TypeColorMap(ds, ColorMapTypes(ds)[k]),
         label |-> Capitalize(ColorMapTypes(ds)[k])]]

\* ---------------------------------------------------------------- ApiClient
\* JSON.stringify({ log_url: logUrl, ignore_cache: ignoreCache })
RequestBody(logUrl, ignoreCache) ==
    << "{", "log_url", logUrl, "ignore_cache", ignoreCache, "}" >>

\* the arguments ApiClient.analyze passes to fetch
FetchArgs(logUrl, ignoreCache) ==
    [url |-> "/analyze", method |-> "POST", contentType |-> "application/json",
     body |-> RequestBody(logUrl, ignoreCache)]

\* a JSON value: an object (with its error member, Undefined when it has
\* none, and its other members) or null
JsonObject(error, members) == [type |-> "object", error |-> error, members |-> members]
JsonNull == [type |-> "null", error |-> Undefined, members |-> << >>]

\* response bodies as received: texts of JSON objects, the text null, and a
\* text that is no JSON (an HTML error page)
BodyTexts ==
    { "{\"success\":true,\"jobs\":[]}", "{\"error\":\"Invalid URL provided\"}",
      "{\"error\":\"\"}", "{\"detail\":\"gone\"}", "null", "<html>Bad Gateway</html>" }

\* whether JSON.parse accepts the text
IsJson(text) == text # "<html>Bad Gateway</html>"

\* JSON.parse of a text it accepts
ParseJson(text) ==
    CASE text = "{\"success\":true,\"jobs\":[]}" -> JsonObject(Undefined, << "success", "jobs" >>)
      [] text = "{\"error\":\"Invalid URL provided\"}" -> JsonObject("Invalid URL provided", << >>)
      [] text = "{\"error\":\"\"}" -> JsonObject("", << >>)
      [] text = "{\"detail\":\"gone\"}" -> JsonObject(Undefined, << "detail" >>)
      [] text = "null" -> JsonNull

\* a Response as fetch resolves with it
Response(status, statusText, text) ==
    [ok |-> status \in 200..299, status |-> status, statusText |-> statusText, text |-> text]

Responses ==
    { Response(200, "OK", t) : t \in BodyTexts }
    \cup { Response(400, "Bad Request", t) : t \in BodyTexts }
    \cup { Response(502, "Bad Gateway", t) : t \in BodyTexts }

NoResponse == Response(0, "", "null")

\* an exception: its constructor, its message and, for the two HTTP
\* messages, the status / status text interpolated into it
Exception(name, message, status, statusText) ==
    [name |-> name, message |-> message, status |-> status, statusText |-> statusText]

NetworkError == Exception("TypeError", "Network request failed", 0, "")

\* what response.json() rejects with on a text that is no JSON
JsonSyntaxError == Exception("SyntaxError", "Unexpected token", 0, "")

\* `HTTP error! Status: ${response.status} ${response.statusText}` (line 20)
HttpStatusTextError(r) == Exception("Error", "HTTP error! Status:", r.status, r.statusText)

\* `HTTP error! Status: ${response.status}` (line 23)
HttpStatusError(r) == Exception("Error", "HTTP error! Status:", r.status, "")

\* a || b on strings: the empty string and undefined are falsy
Truthy(v) == v # Undefined /\ v # ""

\* a settled promise
Resolved(value) == [state |-> "resolved", value |-> value, reason |-> NetworkError]
Rejected(reason) == [state |-> "rejected", value |-> JsonNull, reason |-> reason]
Pending == [state |-> "pending", value |-> JsonNull, reason |-> NetworkError]

\* the callback given to .then after response.json() of a non-ok response
\* (lines 22-24): reading .error of null is a TypeError
ErrorDataThrown(r, errorData) ==
    IF errorData.type = "null"
    THEN Rejected(Exception("TypeError", "Cannot read properties of null", 0, ""))
    ELSE IF Truthy(errorData.error)
    THEN Rejected(Exception("Error", errorData.error, 0, ""))
    ELSE Rejected(HttpStatusError(r))

\* the promise analyze returns once response.json() has settled
AnalyzeSettled(r) ==
    IF ~r.ok
    THEN IF ~IsJson(r.text) THEN Rejected(HttpStatusTextError(r))
         ELSE ErrorDataThrown(r, ParseJson(r.text))
    ELSE IF ~IsJson(r.text) THEN Rejected(JsonSyntaxError)
         ELSE Resolved(ParseJson(r.text))

\* the state of one analyze call: the fetch arguments, the response fetch
\* resolved with, and the promise analyze returned
Call(phase, request, response, promise) ==
    [phase |-> phase, request |-> request, response |-> response, promise |-> promise]

NoCall == Call("idle", FetchArgs("", FALSE), NoResponse, Pending)

\* -------------------------------------------------------------- job details
\* an entry of a job's autoinst-log; message is the sequence of its lines
LogEntry(type, message) == [type |-> type, message |-> message]

\* an entry of a job's exceptions list
ExceptionOf(message, log_index) == [message |-> message, log_index |-> log_index]

\* jobDetails['autoinst-log']: an array of entries, a string or missing
LogArray(entries) == [kind |-> "array", entries |-> entries, text |-> ""]
LogString(text) == [kind |-> "string", entries |-> << >>, text |-> text]
NoLog == [kind |-> "undefined", entries |-> << >>, text |-> ""]

\* one value of the jobs object of a response, with its key
JobDetails(id, log, exceptions, settings) ==
    [id |-> id, log |-> log, exceptions |-> exceptions, settings |-> settings]

\* the response bodies the backend sends
Bodies == {1, 2, 3, 4}

\* data.jobs in for-in order (integer-like keys ascending); << >> when the
\* response has no jobs member
JobsOf(body) ==
    CASE body = 1 ->
         << JobDetails("1",
               LogArray(<< LogEntry("info", << "Starting test" >>),
                           LogEntry("exception", << "Something failed at some/file.pm line 42." >>),
                           LogEntry("mutex", << >>) >>),
               << ExceptionOf(<< "Full exception details here.", "Another line." >>, 1) >>,
               TRUE) >>
      [] body = 2 ->
         << JobDetails("1",
               LogArray(<< LogEntry("exception", << "Died", "at lib/a.pm line 7." >>),
                           LogEntry("info", << "Starting test" >>),
                           LogEntry("exception", << >>) >>),
               << >>, FALSE),
            JobDetails("2", LogString("log not available"), << >>, TRUE),
            JobDetails("11",
               LogArray(<< LogEntry("info", << "Starting test" >>),
                           LogEntry("exception", << "Died", "at lib/a.pm line 7." >>) >>),
               << ExceptionOf(<< "Died", "at lib/a.pm line 7." >>, 1) >>,
               FALSE) >>
      [] body = 3 -> << >>
      [] body = 4 ->
         << JobDetails("2", LogArray(<< LogEntry("info", << "Starting test" >>) >>), << >>, FALSE) >>

\* data.error of a response
ErrorOf(body) == IF body = 3 THEN "Invalid URL" ELSE Undefined

\* the ids of the rows and the fragment links that target them
LogRowId(jobId, index) == << "log-row-" >> \o Chars(jobId) \o << "-" >> \o Digits(index)
ExceptionRowId(jobId, index) ==
    << "exception-row-" >> \o Chars(jobId) \o << "-" >> \o Digits(index)
Href(id) == << "#" >> \o id
NoHref == << >>

\* the lines that match /.* at .*?\.pm line \d+\.?/
PerlLines == { "Something failed at some/file.pm line 42." }

\* the text of an exception's cell in the log table: the first match of the
\* pattern, else the first line ('' for a missing message)
Summary(message) ==
    IF \E n \in DOMAIN message : message[n] \in PerlLines
    THEN message[CHOOSE n \in DOMAIN message :
                    message[n] \in PerlLines /\ \A m \in 1..(n - 1) : message[m] \notin PerlLines]
    ELSE IF message = << >> THEN "" ELSE message[1]

\* the exceptions renderJobDetails collects from the log: one per entry of
\* type exception, with the entry's message and its 0-based position
RECURSIVE CollectExceptions(_, _)
CollectExceptions(entries, k) ==
    IF k > Len(entries) THEN << >>
    ELSE (IF entries[k].type = "exception"
          THEN << ExceptionOf(entries[k].message, k - 1) >> ELSE << >>)
         \o CollectExceptions(entries, k + 1)

\* variant: the exceptions supplied with the job are kept
ExceptionsOf_Supplied(job) == job.exceptions

\* jobDetails.exceptions after renderJobDetails overwrote it
ExceptionsOf(job) ==
    IF job.log.kind = "array" THEN CollectExceptions(job.log.entries, 1) ELSE << >>

\* exceptions.findIndex(ex => ex.log_index === index), 0-based, -1 if none
findIndex(exceptions, index) ==
    FirstOf({ k \in DOMAIN exceptions : exceptions[k].log_index = index }) - 1

\* a table row: its id, the href of the link in it (NoHref without one),
\* the link's or cell's text and the text of its <pre>
Row(id, href, text, pre) ==
    [id |-> id, href |-> href, text |-> text, pre |-> pre, highlighted |-> FALSE]

\* a <details> element with the rows of its table
Section(title, jobId, rows) == [title |-> title, job |-> jobId, rows |-> rows, open |-> FALSE]

\* the row of the log table for the entry at 0-based position index
LogRow(jobId, exceptions, entry, index) ==
    Row(LogRowId(jobId, index),
        IF entry.type = "exception" /\ findIndex(exceptions, index) # -1
        THEN Href(ExceptionRowId(jobId, findIndex(exceptions, index))) ELSE NoHref,
        IF entry.type = "exception" THEN << Summary(entry.message) >> ELSE entry.message,
        << >>)

\* variant: the back-link targets the log row of the exception's own position
ExceptionRow_OwnIndex(jobId, exception, index) ==
    Row(ExceptionRowId(jobId, index), Href(LogRowId(jobId, index)),
        << "Go to log line", exception.log_index + 1 >>, exception.message)

\* the row of the Exceptions table for the exception at 0-based position index
ExceptionRow(jobId, exception, index) ==
    Row(ExceptionRowId(jobId, index), Href(LogRowId(jobId, exception.log_index)),
        << "Go to log line", exception.log_index + 1 >>, exception.message)

\* _createCollapsibleSection(title, data, jobId), data being the job details
\* with the exceptions list in force
_createCollapsibleSection(title, job, exceptions) ==
    IF title = "autoinst-log" /\ job.log.kind = "array"
    THEN Section(title, job.id,
                 [n \in DOMAIN job.log.entries |->
                     LogRow(job.id, exceptions, job.log.entries[n], n - 1)])
    ELSE IF title = "Exceptions"
    THEN Section(title, job.id,
                 [n \in DOMAIN exceptions |-> ExceptionRow(job.id, exceptions[n], n - 1)])
    ELSE Section(title, job.id, << >>)

\* the sections of one job entry: Settings and autoinst-log when the job
\* has them, Exceptions when there is one, Other Details always
JobEntry(job, exceptions) ==
    (IF job.settings THEN << _createCollapsibleSection("Settings", job, exceptions) >> ELSE << >>)
    \o (IF job.log.kind = "array" \/ (job.log.kind = "string" /\ job.log.text # "")
        THEN << _createCollapsibleSection("autoinst-log", job, exceptions) >> ELSE << >>)
    \o (IF Len(exceptions) > 0
        THEN << _createCollapsibleSection("Exceptions", job, exceptions) >> ELSE << >>)
    \o << _createCollapsibleSection("Other Details", job, exceptions) >>

\* renderJobDetails(jobsData, container): the <details> elements appended,
\* job by job (main.js repeats the same loop inline, lines 86-176)
RECURSIVE renderJobDetails(_, _)
renderJobDetails(jobsData, k) ==
    IF k > Len(jobsData) THEN << >>
    ELSE JobEntry(jobsData[k], ExceptionsOf(jobsData[k])) \o renderJobDetails(jobsData, k + 1)

\* data.timeline_events of a response: the job and log position of each
\* event (none for an error response and for a run without events)
TimelineOf(body) ==
    CASE body = 1 -> << [job_id |-> "1", log_index |-> 0], [job_id |-> "1", log_index |-> 1],
                        [job_id |-> "2", log_index |-> 0] >>
      [] body = 2 -> << [job_id |-> "1", log_index |-> 0], [job_id |-> "11", log_index |-> 1],
                        [job_id |-> "2", log_index |-> 0] >>
      [] OTHER -> << >>

\* data.debug_log of a response: the levels of its entries
DebugLogOf(body) == IF body = 3 THEN << "error" >> ELSE << "info", "debug" >>

\* a reference to a row element: the render that created it, its section
\* and its position; NoRow is null
RowRef(gen, sec, row) == [gen |-> gen, sec |-> sec, row |-> row]
NoRow == RowRef(0, 0, 0)

\* the content of #job-details-container: what wrote it, for which
\* submission, and its <details> elements
Details(content, from, sections) == [content |-> content, from |-> from, sections |-> sections]

\* the timeline container: the submission whose events it shows (0: none)
Timeline(from, events) == [from |-> from, events |-> events]

\* the page before the first submission
BlankPage ==
    [submitted |-> 0, pending |-> {}, body |-> << >>,
     details |-> Details("empty", 0, << >>), gen |-> 0,
     debugLog |-> << >>, timeline |-> Timeline(0, << >>),
     highlightedRow |-> NoRow, areAllExpanded |-> FALSE, controls |-> "none",
     lastOp |-> "load", lastHit |-> << >>]

\* -------------------------------------------------------------------- state
VARIABLES
    inst,               \* one record per initializeTimeline call, in call order
    scene,              \* children of the container after the last render
    syncLegendDisplay,  \* #sync-legend style.display
    resetDisplay,       \* #reset-zoom-btn style.display
    ptrX,               \* pointer x
    ptrOn,              \* element under the pointer that last got mouseover
    btn,                \* mouse button: "up" or "down"
    zoomDepth,          \* zoom gestures committed since the last reset
    lastOp,             \* the event dispatched last
    renderLog,          \* closures that rendered during the last event
    thrown,             \* exceptions raised by handlers of the last event
    clickLog,           \* arguments onEventClick got during the last event
    initScene,          \* the scene the latest initializeTimeline produced
    host,               \* which elements the host page has
    legendItems,        \* children of #timeline-legend
    syncLegendItems,    \* children of #sync-legend
    api,                \* the ApiClient.analyze call in progress and its promise
    page                \* the results page: requests in flight, job details,
                        \* debug log, timeline source and highlighted row

vars == << inst, scene, syncLegendDisplay, resetDisplay, ptrX, ptrOn, btn,
           zoomDepth, lastOp, renderLog, thrown, clickLog, initScene,
           host, legendItems, syncLegendItems, api, page >>

\* the elements initializeTimeline and _renderTimeline look up by id
Host(container, resetButton, legend, syncLegend) ==
    [container |-> container, resetButton |-> resetButton,
     legend |-> legend, syncLegend |-> syncLegend]

FullHost == Host(TRUE, TRUE, TRUE, TRUE)

\* host pages that lack one of the four elements
IncompleteHosts ==
    { Host(FALSE, TRUE, TRUE, TRUE), Host(TRUE, FALSE, TRUE, TRUE),
      Host(TRUE, TRUE, FALSE, TRUE), Host(TRUE, TRUE, TRUE, FALSE) }

NoNode == << >>

\* variant: the end is taken from the last event but one
FullViewport_LastButOne(ds) ==
    Viewport(AllEvents(ds)[1].timestamp, AllEvents(ds)[Len(AllEvents(ds)) - 1].timestamp, 1)

\* fullStartTime / fullEndTime: the timestamps of the first and last event
FullViewport(ds) ==
    Viewport(AllEvents(ds)[1].timestamp, AllEvents(ds)[Len(AllEvents(ds))].timestamp, 1)

\* the variables of one initializeTimeline closure
NewClosure(ds) ==
    [ds |-> ds, full |-> FullViewport(ds), cur |-> FullViewport(ds),
     isDragging |-> FALSE, startX |-> 0, selectionRect |-> NoNode,
     docListeners |-> FALSE, resetListener |-> TRUE, downListener |-> TRUE]

Target(kind, idx) == [kind |-> kind, idx |-> idx, id |-> << >>]

\* after a render the element that was under the pointer is gone and no
\* element of the new scene has got a mouseover yet; the id of the marker
\* that was hovered is kept to tell whether it exists in the new scene
Gone(on, sc) ==
    [kind |-> "none", idx |-> 0,
     id |-> IF on.kind = "marker" THEN sc.markers[on.idx].id ELSE on.id]

\* ------------------------------------------------------------- hit testing
OverMarker(sc, k, x) ==
    LET c == sc.markers[k].cx
    IN  Abs((x - MarginLeft) * c.d - c.n) <= MarkerRadius * c.d

OverRect(sc, j, x) ==
    LET r == sc.rects[j]
    IN  /\ RatLt(r.x1, r.x2)
        /\ RatLeq(r.x1, RatOfInt(x - MarginLeft))
        /\ RatLeq(RatOfInt(x - MarginLeft), r.x2)

\* the vertical positions the pointer is moved to: the centre line of a
\* marker, and a line 7 px below a lane's centre (inside the lane's
\* rectangles, outside its markers)
PointerYs(sc) ==
    { sc.markers[k].cy : k \in DOMAIN sc.markers }
    \cup { sc.rects[j].y + 17 : j \in DOMAIN sc.rects }

\* whether the child c of the plot group covers the point (x, y)
Covers(sc, c, x, y) ==
    \/ c.kind = "marker" /\ y = sc.markers[c.idx].cy /\ OverMarker(sc, c.idx, x)
    \/ c.kind = "rect" /\ y >= sc.rects[c.idx].y /\ y <= sc.rects[c.idx].y + 20
                       /\ OverRect(sc, c.idx, x)

\* the children of the plot group of scene sc, in paint order
PaintOrder(sc) == PlotChildren(Len(sc.lifelines), Len(sc.markers), Len(sc.rects))

\* the positions in the paint order whose child covers the point (x, y)
CoveringAt(sc, paint, x, y) == { n \in DOMAIN paint : Covers(sc, paint[n], x, y) }

\* the last of a non-empty set of positions
LastOf(S) == CHOOSE n \in S : \A o \in S : o <= n

\* the children that are the topmost one (the last in paint order) at some
\* point of the column x
TopmostAt(sc, paint, x) ==
    { paint[LastOf(CoveringAt(sc, paint, x, y))] :
        y \in { v \in PointerYs(sc) : CoveringAt(sc, paint, x, v) # {} } }

\* the elements a pointer at x can be on: the svg itself, or the topmost
\* marker or rectangle at one of the vertical positions
TargetsAt(sc, x) ==
    { Target("svg", 0) : z \in { y \in {x} : sc.by # 0 /\ y >= 0 /\ y <= ContainerWidth } }
    \cup { Target(c.kind, c.idx) : c \in TopmostAt(sc, PaintOrder(sc), x) }

\* x lies within svg.querySelector('g').getBoundingClientRect(): the hull of
\* the participant labels, lifelines, axis, markers and rectangles
InPlotGroup(sc, x) ==
    LET px == RatOfInt(x - MarginLeft)
    IN  /\ \/ x >= MarginLeft - LabelReach
           \/ \E k \in DOMAIN sc.markers :
                 (sc.markers[k].cx.n - MarkerRadius * sc.markers[k].cx.d) <= (x - MarginLeft) * sc.markers[k].cx.d
           \/ \E j \in DOMAIN sc.rects : RatLt(sc.rects[j].x1, sc.rects[j].x2) /\ RatLeq(sc.rects[j].x1, px)
        /\ \/ x <= MarginLeft + ChartWidth
           \/ \E k \in DOMAIN sc.markers :
                 (x - MarginLeft) * sc.markers[k].cx.d <= (sc.markers[k].cx.n + MarkerRadius * sc.markers[k].cx.d)
           \/ \E j \in DOMAIN sc.rects : RatLt(sc.rects[j].x1, sc.rects[j].x2) /\ RatLeq(px, sc.rects[j].x2)

\* ---------------------------------------------------------- hover handlers
\* variant: the tooltip is written only for an event with a pairing key
MarkerMouseOver_TooltipIfKeyed(sc, k) ==
    LET m == sc.markers[k]
        pairName == PairNameOfData(m.eventData)
        tip == [opacity |-> "1",
                html |-> << "event", m.event.timestamp, getShortName(sc.ds, m.event.job_id),
                            _cleanLogMessage(m.event.message) >>]
    IN  IF pairName # Undefined
        THEN [sc EXCEPT
                !.tooltip = tip,
                !.markers = [c \in DOMAIN sc.markers |->
                    IF PairNameOfData(sc.markers[c].eventData) # pairName
                    THEN [sc.markers[c] EXCEPT !.faded = TRUE]
                    ELSE sc.markers[c]],
                !.arrows = [a \in DOMAIN sc.arrows |->
                    IF sc.arrows[a].pairName = pairName
                    THEN [sc.arrows[a] EXCEPT !.display = "block"]
                    ELSE sc.arrows[a]],
                !.rects = [r \in DOMAIN sc.rects |->
                    IF sc.rects[r].pairName = pairName
                    THEN [sc.rects[r] EXCEPT !.opacity = "0.4"]
                    ELSE sc.rects[r]]]
        ELSE sc

\* variant: markers without a pairing key are left unfaded
MarkerMouseOver_KeepsUnkeyed(sc, k) ==
    LET m == sc.markers[k]
        pairName == PairNameOfData(m.eventData)
        tip == [opacity |-> "1",
                html |-> << "event", m.event.timestamp, getShortName(sc.ds, m.event.job_id),
                            _cleanLogMessage(m.event.message) >>]
    IN  IF pairName # Undefined
        THEN [sc EXCEPT
                !.tooltip = tip,
                !.markers = [c \in DOMAIN sc.markers |->
                    IF /\ PairNameOfData(sc.markers[c].eventData) # Undefined
                       /\ PairNameOfData(sc.markers[c].eventData) # pairName
                    THEN [sc.markers[c] EXCEPT !.faded = TRUE]
                    ELSE sc.markers[c]],
                !.arrows = [a \in DOMAIN sc.arrows |->
                    IF sc.arrows[a].pairName = pairName
                    THEN [sc.arrows[a] EXCEPT !.display = "block"]
                    ELSE sc.arrows[a]],
                !.rects = [r \in DOMAIN sc.rects |->
                    IF sc.rects[r].pairName = pairName
                    THEN [sc.rects[r] EXCEPT !.opacity = "0.4"]
                    ELSE sc.rects[r]]]
        ELSE [sc EXCEPT !.tooltip = tip]

\* circle 'mouseover'
MarkerMouseOver(sc, k) ==
    LET m == sc.markers[k]
        pairName == PairNameOfData(m.eventData)
        tip == [opacity |-> "1",
                html |-> << "event", m.event.timestamp, getShortName(sc.ds, m.event.job_id),
                            _cleanLogMessage(m.event.message) >>]
    IN  IF pairName # Undefined
        THEN [sc EXCEPT
                !.tooltip = tip,
                !.markers = [c \in DOMAIN sc.markers |->
                    IF PairNameOfData(sc.markers[c].eventData) # pairName
                    THEN [sc.markers[c] EXCEPT !.faded = TRUE]
                    ELSE sc.markers[c]],
                !.arrows = [a \in DOMAIN sc.arrows |->
                    IF sc.arrows[a].pairName = pairName
                    THEN [sc.arrows[a] EXCEPT !.display = "block"]
                    ELSE sc.arrows[a]],
                !.rects = [r \in DOMAIN sc.rects |->
                    IF sc.rects[r].pairName = pairName
                    THEN [sc.rects[r] EXCEPT !.opacity = "0.4"]
                    ELSE sc.rects[r]]]
        ELSE [sc EXCEPT !.tooltip = tip]

\* the sync legend after circle 'mouseover'
LegendAfterMouseOver(sc, k, legend) ==
    IF PairNameOfData(sc.markers[k].eventData) # Undefined /\ host.syncLegend
    THEN "flex" ELSE legend

\* variant: the arrows are left as they are
MarkerMouseOut_KeepsArrows(sc, related) ==
    [sc EXCEPT
        !.tooltip = IF related.kind # "rect" THEN [sc.tooltip EXCEPT !.opacity = "0"]
                    ELSE sc.tooltip,
        !.markers = [c \in DOMAIN sc.markers |-> [sc.markers[c] EXCEPT !.faded = FALSE]],
        !.rects = [r \in DOMAIN sc.rects |-> [sc.rects[r] EXCEPT !.opacity = "0.15"]]]

\* circle 'mouseout'; related is the element the pointer moves onto
MarkerMouseOut(sc, related) ==
    [sc EXCEPT
        !.tooltip = IF related.kind # "rect" THEN [sc.tooltip EXCEPT !.opacity = "0"]
                    ELSE sc.tooltip,
        !.markers = [c \in DOMAIN sc.markers |-> [sc.markers[c] EXCEPT !.faded = FALSE]],
        !.arrows = [a \in DOMAIN sc.arrows |-> [sc.arrows[a] EXCEPT !.display = "none"]],
        !.rects = [r \in DOMAIN sc.rects |-> [sc.rects[r] EXCEPT !.opacity = "0.15"]]]

\* variant: the rectangle's mouseover also traces the rectangle's key
RectMouseOver_Traces(sc, j) ==
    [sc EXCEPT !.tooltip = [opacity |-> "1",
                            html |-> << "Critical Section", sc.rects[j].pairName >>],
               !.rects = [r \in DOMAIN sc.rects |->
                   IF sc.rects[r].pairName = sc.rects[j].pairName
                   THEN [sc.rects[r] EXCEPT !.opacity = "0.4"]
                   ELSE sc.rects[r]]]

\* rectangle 'mouseover' / 'mouseout' (addTooltipHandlersToRect)
RectMouseOver(sc, j) ==
    [sc EXCEPT !.tooltip = [opacity |-> "1",
                            html |-> << "Critical Section", sc.rects[j].pairName >>]]

\* variant: the rectangle's mouseout leaves the tooltip
RectMouseOut_KeepsTooltip(sc) == sc

RectMouseOut(sc) == [sc EXCEPT !.tooltip = [sc.tooltip EXCEPT !.opacity = "0"]]

SameElement(a, b) == a.kind = b.kind /\ a.idx = b.idx

IsElement(t) == t.kind \in {"marker", "rect"}

\* the scene after the mouseout / mouseover pair of a pointer move from
\* element old to element new
SceneAfterHover(sc, old, new) ==
    LET left == IF IsElement(old) /\ ~SameElement(old, new)
                THEN IF old.kind = "marker" THEN MarkerMouseOut(sc, new) ELSE RectMouseOut(sc)
                ELSE sc
    IN  IF IsElement(new) /\ ~SameElement(old, new)
        THEN IF new.kind = "marker" THEN MarkerMouseOver(left, new.idx)
             ELSE RectMouseOver(left, new.idx)
        ELSE left

LegendAfterHover(sc, old, new, legend) ==
    LET left == IF old.kind = "marker" /\ ~SameElement(old, new) /\ host.syncLegend
                THEN "none" ELSE legend
    IN  IF new.kind = "marker" /\ ~SameElement(old, new)
        THEN LegendAfterMouseOver(sc, new.idx, left)
        ELSE left

\* ----------------------------------------------------------- drag handlers
\* variant: the press is taken as the start and the release as the end
ZoomViewport_Unordered(cur, startX, endX) ==
    LET timeDomain == cur.e - cur.s
        startPos == Max2(0, startX - MarginLeft)
        endPos == Min2(ChartWidth, endX - MarginLeft)
    IN  Viewport(cur.s * ChartWidth + startPos * timeDomain,
                 cur.s * ChartWidth + endPos * timeDomain,
                 cur.d * ChartWidth)

\* the viewport a committed drag from startX to endX gives
ZoomViewport(cur, startX, endX) ==
    LET timeDomain == cur.e - cur.s
        startPos == Max2(0, Min2(startX, endX) - MarginLeft)
        endPos == Min2(ChartWidth, Max2(startX, endX) - MarginLeft)
    IN  Viewport(cur.s * ChartWidth + startPos * timeDomain,
                 cur.s * ChartWidth + endPos * timeDomain,
                 cur.d * ChartWidth)

\* variant: the viewport follows the pointer while it is dragged
onMouseMove_LiveZoom(c, x) ==
    IF ~c.isDragging \/ c.selectionRect = NoNode THEN c
    ELSE [c EXCEPT !.selectionRect = << Min2(x, c.startX), Abs(x - c.startX) >>,
                   !.cur = ZoomViewport(c.cur, c.startX, x)]

\* onMouseMove of closure c (document listener)
onMouseMove(c, x) ==
    IF ~c.isDragging \/ c.selectionRect = NoNode THEN c
    ELSE [c EXCEPT !.selectionRect = << Min2(x, c.startX), Abs(x - c.startX) >>]

\* onMouseDown of closure c: e.target is the svg and clientX is inside gRect
onMouseDown(c, x) ==
    [c EXCEPT !.isDragging = TRUE, !.startX = x, !.selectionRect = << x, 0 >>,
              !.docListeners = TRUE]

\* variant: the press position is not compared with the plot group's box
MouseDownAccepted_AnyPosition(sc, on, x) == on.kind = "svg"

\* the guards of onMouseDown: the svg exists, the press is on the svg itself
\* and inside the plot group's bounding box
MouseDownAccepted(sc, on, x) == on.kind = "svg" /\ InPlotGroup(sc, x)

\* a world is the part of the state the handlers of one event share
World(i, sc, rd, rl, th, lg, sl) ==
    [inst |-> i, scene |-> sc, resetDisplay |-> rd, renderLog |-> rl, thrown |-> th,
     legendItems |-> lg, syncLegendItems |-> sl]

\* the world at the start of an event
Now == World(inst, scene, resetDisplay, << >>, << >>, legendItems, syncLegendItems)

\* variant: the container and the legend regions are not cleared first
RenderInto_NoClear(w, i, sc, sync, legend) ==
    [w EXCEPT !.scene = [sc EXCEPT !.markers = w.scene.markers \o @,
                                   !.lifelines = w.scene.lifelines \o @,
                                   !.rects = w.scene.rects \o @,
                                   !.arrows = w.scene.arrows \o @],
              !.renderLog = Append(@, i),
              !.syncLegendItems = @ \o sync,
              !.legendItems = @ \o legend]

\* the world after closure i rendered: sc is the scene _renderTimeline
\* builds, sync and legend the entries of the two legend regions.  The
\* render throws on a missing container (line 93), in the pair loop without
\* a color map (line 354) and on a missing #timeline-legend (line 375);
\* what was built before the throw stays
RenderInto(w, i, sc, sync, legend) ==
    LET drawn == [w EXCEPT !.scene = sc, !.renderLog = Append(@, i)]
        synced == [drawn EXCEPT !.syncLegendItems = IF host.syncLegend THEN sync ELSE @]
    IN  IF ~host.container THEN [w EXCEPT !.thrown = Append(@, "TypeError")]
        ELSE IF sc.error # Undefined THEN [drawn EXCEPT !.thrown = Append(@, sc.error)]
        ELSE IF ~host.legend THEN [synced EXCEPT !.thrown = Append(@, "TypeError")]
        ELSE [synced EXCEPT !.legendItems = legend]

\* renderCurrentView of closure i: _renderTimeline with the closure's data
\* and current viewport
renderCurrentView(w, i) ==
    RenderInto(w, i, _renderTimeline(i, w.inst[i].ds, w.inst[i].cur),
               _renderSynchronizationLegend(w.inst[i].ds), LegendItems(w.inst[i].ds))

\* whether the call that led from world w to world v threw
Threw(w, v) == Len(v.thrown) > Len(w.thrown)

\* the statement after renderCurrentView() in a handler sets the display
\* of the reset button; it is not reached when the render threw
ThenShow(w, v, display) ==
    IF Threw(w, v) THEN v ELSE [v EXCEPT !.resetDisplay = display]

\* onMouseUp of closure i (document listener) with e.clientX = x
onMouseUp(w, i, x) ==
    LET c == w.inst[i]
        c1 == [c EXCEPT !.isDragging = FALSE, !.docListeners = FALSE]
        c2 == [c1 EXCEPT !.selectionRect = NoNode]
        sc2 == [w.scene EXCEPT !.selections = @ \ {i}]
        nvp == ZoomViewport(c.cur, c.startX, x)
        set == [w EXCEPT !.inst[i] = [c2 EXCEPT !.cur = nvp], !.scene = sc2]
    IN  IF ~c.isDragging \/ ~c.docListeners THEN w
        ELSE IF c.selectionRect # NoNode /\ i \notin w.scene.selections
        THEN \* container.removeChild of a node that is not a child
             [w EXCEPT !.inst[i] = c1, !.thrown = Append(@, "NotFoundError")]
        ELSE IF Abs(x - c.startX) < DragThreshold
        THEN [w EXCEPT !.inst[i] = c2, !.scene = sc2]
        ELSE ThenShow(set, renderCurrentView(set, i), "inline-block")

\* variant: the end of the viewport is not restored
onResetClick_KeepsEnd(w, i) ==
    LET c == w.inst[i]
        kept == Viewport(c.full.s * c.cur.d, c.cur.e, c.cur.d)
        set == [w EXCEPT !.inst[i] = [c EXCEPT !.cur = kept]]
    IN  IF ~c.resetListener THEN w
        ELSE ThenShow(set, renderCurrentView(set, i), "none")

\* the reset button's click handler of closure i
onResetClick(w, i) ==
    LET c == w.inst[i]
        set == [w EXCEPT !.inst[i] = [c EXCEPT !.cur = c.full]]
    IN  IF ~c.resetListener THEN w
        ELSE ThenShow(set, renderCurrentView(set, i), "none")

\* the listeners of every closure run in registration order
RECURSIVE DispatchMouseUp(_, _, _)
DispatchMouseUp(w, i, x) ==
    IF i > Len(w.inst) THEN w ELSE DispatchMouseUp(onMouseUp(w, i, x), i + 1, x)

RECURSIVE DispatchResetClick(_, _)
DispatchResetClick(w, i) ==
    IF i > Len(w.inst) THEN w ELSE DispatchResetClick(onResetClick(w, i), i + 1)

\* ------------------------------------------------------------------ actions
\* the host page hides both controls until the engine shows them
HostHidden == "none"

\* the page before the first initializeTimeline call
PageLoaded == World(<< >>, EmptyContainer, HostHidden, << >>, << >>, << >>, << >>)

\* initializeTimeline(allEvents, jobs, containerId, typeColorMap, eventPairs,
\* onEventClick) with the inputs of analysis ds, as closure Len(inst) + 1:
\* the reset listener is added first (a missing button throws there), the
\* mousedown listener next (a missing container throws there), the first
\* render last
initializeTimeline(w, ds) ==
    LET c == NewClosure(ds)
    IN  IF ~host.resetButton
        THEN [w EXCEPT !.inst = Append(@, [c EXCEPT !.resetListener = FALSE,
                                                    !.downListener = FALSE]),
                       !.thrown = Append(@, "TypeError")]
        ELSE IF ~host.container
        THEN [w EXCEPT !.inst = Append(@, [c EXCEPT !.downListener = FALSE]),
                       !.thrown = Append(@, "TypeError")]
        ELSE renderCurrentView([w EXCEPT !.inst = Append(@, c)], Len(w.inst) + 1)

\* the state after the page loaded and initializeTimeline ran once, for a
\* host page out of H and an analysis out of D
InitOn(H, D) ==
    \E h \in H : \E ds \in D :
        /\ host = h
        /\ \E w \in { initializeTimeline(PageLoaded, ds) } :
               /\ inst = w.inst
               /\ scene = w.scene
               /\ initScene = w.scene
               /\ resetDisplay = w.resetDisplay
               /\ legendItems = w.legendItems
               /\ syncLegendItems = w.syncLegendItems
               /\ renderLog = w.renderLog
               /\ thrown = w.thrown
        /\ syncLegendDisplay = HostHidden
        /\ ptrX = 200
        /\ ptrOn = Target("none", 0)
        /\ btn = "up"
        /\ zoomDepth = 0
        /\ lastOp = "init"
        /\ clickLog = << >>
        /\ api = NoCall
        /\ page = BlankPage

\* the analyses that come with a color map, and those in which a color is
\* missing (for a type, or altogether)
WithColorMap == { ds \in Datasets : HasColorMap(ds) }
MissingColors == {4, 5}

Init == InitOn({FullHost}, WithColorMap)

\* initializeTimeline called again on the same container and reset control
Initialize(ds) ==
    \E w \in { initializeTimeline(Now, ds) } :
        /\ Len(inst) < MaxInits
        /\ inst' = w.inst
        /\ scene' = w.scene
        /\ initScene' = w.scene
        /\ resetDisplay' = w.resetDisplay
        /\ legendItems' = w.legendItems
        /\ syncLegendItems' = w.syncLegendItems
        /\ renderLog' = w.renderLog
        /\ thrown' = w.thrown
        /\ ptrOn' = IF w.renderLog # << >> THEN Gone(ptrOn, scene) ELSE ptrOn
        /\ lastOp' = "init"
        /\ clickLog' = << >>
        /\ UNCHANGED << syncLegendDisplay, ptrX, btn, zoomDepth, host, api, page >>

\* the pointer moves to x, onto the element tgt
PointerMove(x, tgt) ==
    /\ ~(x = ptrX /\ SameElement(tgt, ptrOn))
    /\ scene' = SceneAfterHover(scene, ptrOn, tgt)
    /\ syncLegendDisplay' = LegendAfterHover(scene, ptrOn, tgt, syncLegendDisplay)
    /\ inst' = [i \in DOMAIN inst |->
                  IF inst[i].docListeners THEN onMouseMove(inst[i], x) ELSE inst[i]]
    /\ ptrX' = x
    /\ ptrOn' = tgt
    /\ lastOp' = "move"
    /\ renderLog' = << >>
    /\ thrown' = << >>
    /\ clickLog' = << >>
    /\ UNCHANGED << resetDisplay, btn, zoomDepth, initScene, host, legendItems,
                    syncLegendItems, api, page >>

\* the button goes down at the pointer position; cap bounds the zoom depth
MouseDown(cap) ==
    LET accepted == MouseDownAccepted(scene, ptrOn, ptrX)
    IN  /\ btn = "up"
        /\ zoomDepth < cap
        /\ ptrOn.kind # "none"
        /\ btn' = "down"
        /\ inst' = [i \in DOMAIN inst |->
                      IF accepted /\ inst[i].downListener
                      THEN onMouseDown(inst[i], ptrX) ELSE inst[i]]
        /\ scene' = IF accepted
                    THEN [scene EXCEPT !.selections =
                             { i \in DOMAIN inst : inst[i].downListener }]
                    ELSE scene
        /\ lastOp' = "down"
        /\ renderLog' = << >>
        /\ thrown' = << >>
        /\ clickLog' = << >>
        /\ UNCHANGED << syncLegendDisplay, resetDisplay, ptrX, ptrOn, zoomDepth,
                        initScene, host, legendItems, syncLegendItems, api, page >>

\* the button is released at the pointer position
MouseUp ==
    \E w \in { DispatchMouseUp(Now, 1, ptrX) } :
        /\ btn = "down"
        /\ btn' = "up"
        /\ inst' = w.inst
        /\ scene' = w.scene
        /\ resetDisplay' = w.resetDisplay
        /\ legendItems' = w.legendItems
        /\ syncLegendItems' = w.syncLegendItems
        /\ renderLog' = w.renderLog
        /\ thrown' = w.thrown
        /\ zoomDepth' = IF w.renderLog # << >> THEN zoomDepth + 1 ELSE zoomDepth
        /\ ptrOn' = IF w.renderLog # << >> THEN Gone(ptrOn, scene) ELSE ptrOn
        /\ lastOp' = "up"
        /\ clickLog' = << >>
        /\ UNCHANGED << syncLegendDisplay, ptrX, initScene, host, api, page >>

\* the visible reset control is activated (pointer or keyboard)
ResetClick ==
    \E w \in { DispatchResetClick(Now, 1) } :
        /\ host.resetButton
        /\ resetDisplay # "none"
        /\ inst' = w.inst
        /\ scene' = w.scene
        /\ resetDisplay' = w.resetDisplay
        /\ legendItems' = w.legendItems
        /\ syncLegendItems' = w.syncLegendItems
        /\ renderLog' = w.renderLog
        /\ thrown' = w.thrown
        /\ zoomDepth' = 0
        /\ ptrOn' = IF w.renderLog # << >> THEN Gone(ptrOn, scene) ELSE ptrOn
        /\ lastOp' = "reset"
        /\ clickLog' = << >>
        /\ UNCHANGED << syncLegendDisplay, ptrX, btn, initScene, host, api, page >>

\* variant: the callback gets the copy parsed from the marker's data attribute
MarkerClick_PassesParsedData ==
    /\ btn = "up"
    /\ ptrOn.kind = "marker"
    /\ clickLog' = << scene.markers[ptrOn.idx].eventData >>
    /\ lastOp' = "click"
    /\ renderLog' = << >>
    /\ thrown' = << >>
    /\ UNCHANGED << inst, scene, syncLegendDisplay, resetDisplay, ptrX, ptrOn, btn,
                    zoomDepth, initScene, host, legendItems, syncLegendItems, api, page >>

\* 'click' dispatched on the marker under the pointer
MarkerClick ==
    /\ btn = "up"
    /\ ptrOn.kind = "marker"
    /\ clickLog' = << scene.markers[ptrOn.idx].event >>
    /\ lastOp' = "click"
    /\ renderLog' = << >>
    /\ thrown' = << >>
    /\ UNCHANGED << inst, scene, syncLegendDisplay, resetDisplay, ptrX, ptrOn, btn,
                    zoomDepth, initScene, host, legendItems, syncLegendItems, api, page >>

\* one initialization, then any sequence of pointer events
Next ==
    \/ \E x \in Pixels : \E tgt \in TargetsAt(scene, x) : PointerMove(x, tgt)
    \/ MouseDown(MaxZooms)
    \/ MouseUp
    \/ ResetClick
    \/ MarkerClick

Spec == Init /\ [][Next]_vars

\* the analyses the host page loads one after the other
ReinitDatasets == {1, 2}

\* the host re-initializes the timeline (a new analysis) at any moment
NextReinit ==
    \/ \E ds \in ReinitDatasets : Initialize(ds)
    \/ \E x \in Pixels : \E tgt \in TargetsAt(scene, x) : PointerMove(x, tgt)
    \/ MouseDown(MaxReinitZooms)
    \/ MouseUp
    \/ ResetClick
    \/ MarkerClick

SpecReinit == InitOn({FullHost}, ReinitDatasets) /\ [][NextReinit]_vars

\* the same engine on a host page that lacks one element
SpecHost == InitOn(IncompleteHosts, WithColorMap) /\ [][Next]_vars

\* the same engine given an analysis in which a color is missing
SpecColors == InitOn({FullHost}, MissingColors) /\ [][Next]_vars

\* ------------------------------------------------------- ApiClient actions
LogUrls == { "http://example.com/123", "invalid-url" }

timelineVars == << inst, scene, syncLegendDisplay, resetDisplay, ptrX, ptrOn, btn,
                   zoomDepth, lastOp, renderLog, thrown, clickLog, initScene,
                   host, legendItems, syncLegendItems >>

\* analyze(logUrl, ignoreCache): fetch is called, a pending promise returned
Analyze(logUrl, ignoreCache) ==
    /\ api.phase \in {"idle", "settled"}
    /\ api' = Call("fetching", FetchArgs(logUrl, ignoreCache), NoResponse, Pending)
    /\ UNCHANGED << timelineVars, page >>

\* fetch rejects (network failure): .then has no rejection handler, the
\* promise analyze returned rejects with the same reason
FetchRejects ==
    /\ api.phase = "fetching"
    /\ api' = [api EXCEPT !.phase = "settled", !.promise = Rejected(NetworkError)]
    /\ UNCHANGED << timelineVars, page >>

\* fetch resolves with a response: the .then callback runs and calls
\* response.json() (line 18 or line 26)
FetchResolves(r) ==
    /\ api.phase = "fetching"
    /\ api' = [api EXCEPT !.phase = "parsing", !.response = r]
    /\ UNCHANGED << timelineVars, page >>

\* response.json() settles and the callbacks chained on it run
JsonSettles ==
    /\ api.phase = "parsing"
    /\ api' = [api EXCEPT !.phase = "settled", !.promise = AnalyzeSettled(api.response)]
    /\ UNCHANGED << timelineVars, page >>

NextApi ==
    \/ \E u \in LogUrls : \E c \in BOOLEAN : Analyze(u, c)
    \/ FetchRejects
    \/ \E r \in Responses : FetchResolves(r)
    \/ JsonSettles

\* ApiClient.analyze called on a loaded page, any number of times in turn
SpecApi == InitOn({FullHost}, {1}) /\ [][NextApi]_vars

\* ------------------------------------------------------------ results page
\* the rows of the document that have the given id, as (section, row)
RowsWithId(p, id) ==
    { sr \in UNION { { << si, ri >> : ri \in DOMAIN p.details.sections[si].rows } :
                       si \in DOMAIN p.details.sections } :
        p.details.sections[sr[1]].rows[sr[2]].id = id }

\* the first of a non-empty set of (section, row) in document order
FirstInDocument(S) ==
    CHOOSE sr \in S : \A o \in S : sr[1] < o[1] \/ (sr[1] = o[1] /\ sr[2] <= o[2])

\* document.getElementById(id) for a row id; NoRow when there is none
getElementById(p, id, found) ==
    IF found = {} THEN NoRow
    ELSE RowRef(p.gen, FirstInDocument(found)[1], FirstInDocument(found)[2])

\* whether the row element ref is in the document
Attached(p, ref) == ref # NoRow /\ ref.gen = p.gen

\* ref.classList.remove('highlighted-row'); a row of an earlier render is
\* no longer in the document
Unhighlight(p, ref) ==
    IF ~Attached(p, ref) THEN p
    ELSE [p EXCEPT !.details.sections[ref.sec].rows[ref.row].highlighted = FALSE]

\* targetRow.classList.add('highlighted-row'); highlightedRow = targetRow;
\* and the <details> around it is opened
Highlight(p, ref) ==
    [p EXCEPT !.details.sections[ref.sec].rows[ref.row].highlighted = TRUE,
              !.details.sections[ref.sec].open = TRUE,
              !.highlightedRow = ref]

\* the submit handler of #log-form for a request the backend will answer
\* with body: the three regions are cleared and the request is sent
onSubmit(p, body) ==
    [p EXCEPT !.submitted = @ + 1, !.pending = @ \cup {p.submitted + 1},
              !.body = Append(@, body),
              !.details = Details("analyzing", p.submitted + 1, << >>),
              !.gen = @ + 1,
              !.timeline = Timeline(0, << >>),
              !.debugLog = << >>]

\* the debug log region after the entries of levels were appended for
\* submission n
AppendLog(log, n, levels) ==
    log \o [k \in DOMAIN levels |-> [from |-> n, level |-> levels[k]]]

\* the .then(data => ...) callback of submission n
onData(p, n, body) ==
    LET cleared == [p EXCEPT !.pending = @ \ {n}, !.gen = @ + 1,
                             !.debugLog = AppendLog(@, n, DebugLogOf(body)),
                             !.timeline = Timeline(n, TimelineOf(body))]
    IN  IF ErrorOf(body) # Undefined
        THEN [cleared EXCEPT !.details = Details("error", n, << >>)]
        ELSE [cleared EXCEPT !.details = Details("jobs", n, renderJobDetails(JobsOf(body), 1)),
                             !.areAllExpanded = FALSE,
                             !.controls = "block"]

\* the .catch(error => ...) callback of submission n
onFetchError(p, n) ==
    [p EXCEPT !.pending = @ \ {n}, !.gen = @ + 1,
              !.details = Details("fatal", n, << >>),
              !.debugLog = AppendLog(@, n, << "fatal" >>)]

\* the click handler of #job-details-container for a click on the link of
\* row (si, ri); target is what getElementById gives for the link's fragment
onLinkClick(p, target) ==
    IF target = NoRow THEN p
    ELSE Highlight(Unhighlight(p, p.highlightedRow), target)

\* the <details id="autoinst-log-<job>"> elements of the document
LogSections(p, jobId) ==
    { si \in DOMAIN p.details.sections :
        p.details.sections[si].title = "autoinst-log" /\ p.details.sections[si].job = jobId }

\* the click handler of a timeline circle (main.js) for the event ev;
\* targetRow is what getElementById gives for the event's log row
onCircleClick(p, ev, targetRow) ==
    IF LogSections(p, ev.job_id) = {} \/ targetRow = NoRow
    THEN Unhighlight(p, p.highlightedRow)
    ELSE Highlight(Unhighlight(p, p.highlightedRow), targetRow)

\* variant: the toggle handler leaves the highlight
onToggle_KeepsHighlight(p, si) == p

\* the toggle handler of the autoinst-log section si
onToggle(p, si) ==
    IF /\ p.details.sections[si].title = "autoinst-log"
       /\ ~p.details.sections[si].open
       /\ Attached(p, p.highlightedRow) /\ p.highlightedRow.sec = si
    THEN [Unhighlight(p, p.highlightedRow) EXCEPT !.highlightedRow = NoRow]
    ELSE p

\* the toggle events of every section whose open state differs from was
RECURSIVE ToggleChanged(_, _, _)
ToggleChanged(p, was, si) ==
    IF si > Len(p.details.sections) THEN p
    ELSE ToggleChanged(IF p.details.sections[si].open # was[si] THEN onToggle(p, si) ELSE p,
                       was, si + 1)

\* the click handler of #toggle-all-btn
onToggleAll(p) ==
    ToggleChanged([p EXCEPT !.areAllExpanded = ~@,
                            !.details.sections =
                                [si \in DOMAIN @ |-> [@[si] EXCEPT !.open = ~p.areAllExpanded]]],
                  [si \in DOMAIN p.details.sections |-> p.details.sections[si].open], 1)

\* the variables of the timeline engine and of ApiClient
notPage == << timelineVars, api >>

\* the form is submitted; the backend will answer with body
Submit(body) ==
    /\ page.submitted < MaxSubmits
    /\ page' = [onSubmit(page, body) EXCEPT !.lastOp = "submit"]
    /\ UNCHANGED notPage

\* the response of submission n arrives and parses
Respond(n) ==
    /\ n \in page.pending
    /\ page' = [onData(page, n, page.body[n]) EXCEPT !.lastOp = "data"]
    /\ UNCHANGED notPage

\* the request of submission n fails
FetchFails(n) ==
    /\ n \in page.pending
    /\ page' = [onFetchError(page, n) EXCEPT !.lastOp = "catch"]
    /\ UNCHANGED notPage

\* the link of row ri of section si is clicked
LinkClick(si, ri) ==
    \E id \in { Tail(page.details.sections[si].rows[ri].href) } :
        /\ page' = [onLinkClick(page, getElementById(page, id, RowsWithId(page, id)))
                       EXCEPT !.lastOp = "link",
                              !.lastHit = IF RowsWithId(page, id) # {} THEN id ELSE @]
        /\ UNCHANGED notPage

\* the circle of event k of the timeline is clicked
CircleClick(k) ==
    \E id \in { LogRowId(page.timeline.events[k].job_id, page.timeline.events[k].log_index) } :
        /\ page' = [onCircleClick(page, page.timeline.events[k],
                                  getElementById(page, id, RowsWithId(page, id)))
                       EXCEPT !.lastOp = "circle",
                              !.lastHit = IF RowsWithId(page, id) # {} THEN id ELSE @]
        /\ UNCHANGED notPage

\* the summary of section si is clicked: the section opens or closes and
\* its toggle event fires
ToggleSection(si) ==
    /\ page' = [onToggle([page EXCEPT !.details.sections[si].open = ~@], si)
                   EXCEPT !.lastOp = "toggle"]
    /\ UNCHANGED notPage

\* the Expand All / Collapse All button is clicked
ToggleAll ==
    /\ page.controls = "block"
    /\ page' = [onToggleAll(page) EXCEPT !.lastOp = "toggleAll"]
    /\ UNCHANGED notPage

NextPage ==
    \/ \E b \in Bodies : Submit(b)
    \/ \E n \in page.pending : Respond(n)
    \/ \E n \in page.pending : FetchFails(n)
    \/ \E si \in DOMAIN page.details.sections :
          \E ri \in { r \in DOMAIN page.details.sections[si].rows :
                        page.details.sections[si].rows[r].href # NoHref } : LinkClick(si, ri)
    \/ \E k \in DOMAIN page.timeline.events : CircleClick(k)
    \/ \E si \in { i \in DOMAIN page.details.sections :
                     page.details.sections[i].rows # << >> } : ToggleSection(si)
    \/ ToggleAll

\* the results page of a loaded host page: submissions, responses in any
\* order, and clicks
SpecPage == InitOn({FullHost}, {1}) /\ [][NextPage]_vars

TypeOK ==
    /\ btn \in {"up", "down"}
    /\ zoomDepth \in 0..Max2(MaxZooms, MaxReinitZooms)
    /\ Len(inst) \in 1..MaxInits
    /\ resetDisplay \in {"none", "inline-block"}
    /\ syncLegendDisplay \in {"none", "flex"}

\* --------------------------------------------------------------- properties
Latest == inst[Len(inst)]

MarkerKey(m) == PairNameOfData(m.eventData)

Dimmed(r) == r.opacity \in {"css", "0.15"}

\* the scene of the Idle state of the hover controller
IdleScene(sc) ==
    /\ \A c \in DOMAIN sc.markers : ~sc.markers[c].faded
    /\ \A a \in DOMAIN sc.arrows : sc.arrows[a].display = "none"
    /\ \A r \in DOMAIN sc.rects : Dimmed(sc.rects[r])

Idle == IdleScene(scene) /\ syncLegendDisplay = "none"

TooltipVisible(sc) == sc.tooltip.opacity = "1"

\* C1: in every reachable state the current viewport of every closure lies
\* inside its full bounds: full_start <= current.start and
\* current.end <= full_end.
C1_ViewportInsideFull ==
    \A i \in DOMAIN inst :
        /\ inst[i].full.s * inst[i].cur.d <= inst[i].cur.s
        /\ inst[i].cur.e <= inst[i].full.e * inst[i].cur.d

\* C2: in every reachable state the current viewport is ordered:
\* current.start <= current.end.
C2_ViewportOrdered ==
    \A i \in DOMAIN inst : inst[i].cur.s <= inst[i].cur.e

\* C3: after two or more initializations on the same host surface, a reset
\* click or a completed drag renders at most once, and only through the
\* closure of the latest initialization; no earlier closure renders.
C3_OnlyLatestClosureActs ==
    (Len(inst) >= 2 /\ lastOp \in {"reset", "up"}) =>
        /\ Len(renderLog) <= 1
        /\ \A k \in DOMAIN renderLog : renderLog[k] = Len(inst)
        /\ lastOp = "reset" => renderLog = << Len(inst) >>
        /\ scene.by = Len(inst)

\* C4: while the pointer is on a marker whose event has pairing key K, a
\* marker is faded exactly when its key differs from K (markers without a key
\* included), every arrow tagged K is visible, every rectangle tagged K has
\* the highlighted opacity and the synchronization legend is shown.
C4_HoverTrace ==
    (ptrOn.kind = "marker" /\ MarkerKey(scene.markers[ptrOn.idx]) # Undefined) =>
        LET K == MarkerKey(scene.markers[ptrOn.idx])
        IN  /\ \A c \in DOMAIN scene.markers :
                  scene.markers[c].faded <=> (MarkerKey(scene.markers[c]) # K)
            /\ \A a \in DOMAIN scene.arrows :
                  scene.arrows[a].pairName = K => scene.arrows[a].display = "block"
            /\ \A r \in DOMAIN scene.rects :
                  scene.rects[r].pairName = K => scene.rects[r].opacity = "0.4"
            /\ syncLegendDisplay = "flex"

\* C4 witness: a keyed marker is hovered while the scene holds an unkeyed
\* marker, a marker of another key, an arrow and a rectangle of its key
C4_Witness ==
    /\ ptrOn.kind = "marker"
    /\ MarkerKey(scene.markers[ptrOn.idx]) # Undefined
    /\ \E c \in DOMAIN scene.markers :
          MarkerKey(scene.markers[c]) = Undefined /\ scene.markers[c].faded
    /\ \E c \in DOMAIN scene.markers :
          /\ MarkerKey(scene.markers[c]) \notin {Undefined, MarkerKey(scene.markers[ptrOn.idx])}
          /\ scene.markers[c].faded
    /\ \E a \in DOMAIN scene.arrows :
          scene.arrows[a].pairName = MarkerKey(scene.markers[ptrOn.idx])
    /\ \E r \in DOMAIN scene.rects :
          scene.rects[r].pairName = MarkerKey(scene.markers[ptrOn.idx])

\* C5: a pointer move that leaves a marker or a rectangle for something that
\* is not a marker leaves the controller Idle (no marker faded, every arrow
\* hidden, every rectangle dimmed, synchronization legend hidden); the
\* tooltip is hidden when the pointer left for the plot background and stays
\* visible when it left a marker directly onto a rectangle.
C5_LeaveReturnsIdle ==
    [][ (lastOp' = "move" /\ IsElement(ptrOn) /\ ~SameElement(ptrOn, ptrOn')
           /\ ptrOn'.kind # "marker")
        => /\ Idle'
           /\ ptrOn'.kind = "svg" => ~TooltipVisible(scene')
           /\ (ptrOn.kind = "marker" /\ ptrOn'.kind = "rect") => TooltipVisible(scene')
      ]_vars

\* C6: after a committed zoom or a reset rebuilt the scene while a marker was
\* hovered, if no marker with the hovered marker's id exists in the new scene
\* the controller is Idle: no marker faded, no arrow visible, all rectangles
\* dimmed and the synchronization legend hidden.
C6_RerenderReturnsIdle ==
    ( /\ lastOp \in {"up", "reset"}
      /\ renderLog # << >>
      /\ ptrOn.kind = "none"
      /\ ptrOn.id # << >>
      /\ \A c \in DOMAIN scene.markers : scene.markers[c].id # ptrOn.id )
    => Idle

\* C7: the synchronization legend is visible only while the pointer is over
\* a marker of the current scene whose event has a pairing key.
C7_LegendOnlyWhileHovering ==
    syncLegendDisplay # "none" =>
        (ptrOn.kind = "marker" /\ MarkerKey(scene.markers[ptrOn.idx]) # Undefined)

\* C8: a click on a marker invokes the click callback exactly once, with the
\* event of the supplied event list the marker was built from (equal field
\* for field), and changes neither viewport, drag state, scene flags, legend
\* nor reset control.
C8_ClickCallsBackOnce ==
    [][ lastOp' = "click" =>
          /\ ptrOn.kind = "marker"
          /\ Len(clickLog') = 1
          /\ \E n \in DOMAIN AllEvents(scene.ds) :
                /\ clickLog'[1] = AllEvents(scene.ds)[n]
                /\ MarkerId(AllEvents(scene.ds)[n]) = scene.markers[ptrOn.idx].id
          /\ UNCHANGED << inst, scene, syncLegendDisplay, resetDisplay, zoomDepth >>
      ]_vars

\* C8 witness: the callback has been invoked by a click made after a zoom
\* rebuilt the scene
C8_Witness ==
    /\ lastOp = "click"
    /\ Len(clickLog) = 1
    /\ zoomDepth > 0
    /\ Latest.cur # Latest.full

\* C9: after a reset every closure's current viewport equals its full
\* bounds, the reset control is hidden and the scene has the markers (count
\* and coordinates) and lifelines the latest initialization produced.
C9_ResetRestoresInitialScene ==
    lastOp = "reset" =>
        /\ \A i \in DOMAIN inst : inst[i].cur = inst[i].full
        /\ resetDisplay = "none"
        /\ scene.vp = Latest.full
        /\ scene.markers = initScene.markers
        /\ scene.lifelines = initScene.lifelines

\* C9 witness: a reset has run (the control is shown only by a committed
\* zoom) and the scene shows every event again
C9_Witness ==
    /\ lastOp = "reset"
    /\ Len(scene.markers) = Len(AllEvents(scene.ds))
    /\ Len(scene.markers) > 0

\* C10: a release that ends a drag of the latest closure less than 10 pixels
\* from the press leaves every viewport and the reset control unchanged and
\* renders nothing; a release 10 pixels or more away commits the zoom of the
\* dragged span as the closure's viewport and renders.
C10_DragThreshold ==
    [][ (lastOp' = "up" /\ Latest.isDragging) =>
          IF Abs(ptrX - Latest.startX) < DragThreshold
          THEN /\ \A i \in DOMAIN inst : inst'[i].cur = inst[i].cur
               /\ renderLog' = << >>
               /\ resetDisplay' = resetDisplay
          ELSE /\ Latest'.cur = ZoomViewport(Latest.cur, Latest.startX, ptrX)
               /\ renderLog' # << >>
               /\ scene'.vp = Latest'.cur
      ]_vars

\* the events of the analysis the scene was rendered from
SceneEvents == AllEvents(scene.ds)

\* the labels of the participants of the full event list
FullLabels == { getShortName(scene.ds, SceneEvents[n].job_id) : n \in DOMAIN SceneEvents }

\* the markers of the scene built from the n-th event of the list
MarkersOf(n) == { k \in DOMAIN scene.markers : scene.markers[k].event = SceneEvents[n] }

LaneOf(label) == { k \in DOMAIN scene.lifelines : scene.lifelines[k].label = label }

ScenePairs == EventPairs(scene.ds)

LockPairs == { k \in DOMAIN ScenePairs : ScenePairs[k].pair_type = "mutex_lock_unlock" }

\* the rectangles of the scene that span the k-th pair and carry its key
RectsFor(k) ==
    { j \in DOMAIN scene.rects :
         /\ scene.rects[j].pairName = ScenePairs[k].mutex
         /\ scene.rects[j].x1 = xScale(scene.vp, ScenePairs[k].start_event.timestamp)
         /\ scene.rects[j].x2 = xScale(scene.vp, ScenePairs[k].end_event.timestamp) }

\* the y of the lane of a job, as the scene shows it
LaneYs(job) == { scene.lifelines[k].y : k \in LaneOf(getShortName(scene.ds, job)) }

ArrowsFor(k) ==
    { a \in DOMAIN scene.arrows :
         /\ scene.arrows[a].pairName = OrElse(ScenePairs[k].mutex, ScenePairs[k].barrier)
         /\ scene.arrows[a].x1 = xScale(scene.vp, ScenePairs[k].start_event.timestamp)
         /\ scene.arrows[a].x2 = xScale(scene.vp, ScenePairs[k].end_event.timestamp) }

LanelessPairs ==
    { k \in DOMAIN ScenePairs :
         \/ LaneYs(ScenePairs[k].start_event.job_id) = {}
         \/ LaneYs(ScenePairs[k].end_event.job_id) = {} }

\* C15: a pair with an endpoint whose job has no lane in the scene is
\* skipped: the scene holds no arrow and no rectangle for it and a warning
\* names it; the render throws nothing and every other pair is drawn.
C15_LanelessPairSkipped ==
    scene.by # 0 =>
        /\ \A k \in LanelessPairs :
              /\ ArrowsFor(k) = {}
              /\ RectsFor(k) = {}
              /\ k \in scene.warnings
        /\ (LanelessPairs # {} /\ renderLog # << >>) => thrown = << >>
        /\ \A k \in DOMAIN ScenePairs \ LanelessPairs :
              IF k \in LockPairs THEN RectsFor(k) # {} ELSE ArrowsFor(k) # {}

\* C16: when the rendered viewport has end = start, every event of the list
\* has its marker, every marker is at x = width / 2, and neither the
\* initialization nor a later render throws.
C16_DegenerateViewportCentered ==
    (scene.by # 0 /\ scene.vp.s = scene.vp.e) =>
        /\ Len(scene.markers) = Len(SceneEvents)
        /\ \A k \in DOMAIN scene.markers :
              /\ scene.markers[k].cx.d > 0
              /\ 2 * scene.markers[k].cx.n = ChartWidth * scene.markers[k].cx.d
        /\ renderLog # << >> => thrown = << >>

\* C16 witness: a scene of an analysis whose events all have one timestamp,
\* rendered again by a drag, with its markers
C16_Witness ==
    /\ scene.by # 0
    /\ scene.vp.s = scene.vp.e
    /\ Len(scene.markers) >= 2
    /\ lastOp = "up"
    /\ renderLog # << >>

\* C17: on a host page that lacks the container, the reset control or a
\* legend region, neither the initialization nor any handler throws.
C17_IncompleteHostNeverThrows ==
    host # FullHost => thrown = << >>

\* the types the color map of the scene's analysis has an entry for
ColoredTypes ==
    { ColorMapTypes(scene.ds)[k] : k \in DOMAIN ColorMapTypes(scene.ds) }

\* the color category of the k-th pair
PairCategory(k) == IF ScenePairs[k].mutex # Undefined THEN "mutex" ELSE "barrier"

\* C18: a missing color never makes the render fail: the render throws
\* nothing, a marker whose type has no entry in the color map (or when there
\* is no color map) is filled with the fallback "#808080", an arrow whose
\* category has no color is stroked with the fallback "#333", and every
\* pair is drawn.
C18_MissingColorFallsBack ==
    scene.by # 0 =>
        /\ scene.error = Undefined
        /\ renderLog # << >> => thrown = << >>
        /\ \A m \in DOMAIN scene.markers :
              scene.markers[m].event.type \notin ColoredTypes =>
                  scene.markers[m].fill = "#808080"
        /\ \A k \in DOMAIN ScenePairs :
              IF k \in LockPairs THEN RectsFor(k) # {}
              ELSE /\ ArrowsFor(k) # {}
                   /\ \A a \in ArrowsFor(k) :
                         PairCategory(k) \notin ColoredTypes => scene.arrows[a].stroke = "#333"

NoDrag(closures) == \A i \in DOMAIN closures : ~closures[i].isDragging

Distinct(seq) == \A j, k \in DOMAIN seq : j # k => seq[j] # seq[k]

\* C20: the outcome of a render depends on its inputs only and nothing of
\* an earlier render survives it: after every event that rendered, the
\* scene, the legend and the synchronization legend are those a first
\* render of the same analysis at the same viewport gives (after a reset,
\* those of the initialization), with one marker per id, one lifeline per
\* label, two axis labels, a hidden tooltip and one legend entry per label.
C20_RenderIsIdempotent ==
    (scene.by # 0 /\ renderLog # << >>) =>
        /\ scene = _renderTimeline(scene.by, scene.ds, scene.vp)
        /\ legendItems = LegendItems(scene.ds)
        /\ syncLegendItems = _renderSynchronizationLegend(scene.ds)
        /\ lastOp = "reset" => scene = initScene
        /\ Distinct([k \in DOMAIN scene.markers |-> scene.markers[k].id])
        /\ Distinct([k \in DOMAIN scene.lifelines |-> scene.lifelines[k].label])
        /\ Distinct([k \in DOMAIN legendItems |-> legendItems[k].label])
        /\ Distinct([k \in DOMAIN syncLegendItems |-> syncLegendItems[k].label])
        /\ Len(scene.markers) <= Len(SceneEvents)
        /\ Len(scene.axis) = 2
        /\ scene.tooltip = HiddenTooltip

\* C20 witness: the scene has been rendered for the third time at least
\* (the initialization and two zooms) and holds markers
C20_Witness ==
    /\ lastOp = "up"
    /\ renderLog # << >>
    /\ zoomDepth >= 2
    /\ Len(scene.markers) > 0
    /\ legendItems # << >>

\* the pair kinds and the label of the legend entry of each
PairKinds ==
    { << "mutex_create_unlock", "Mutex Signal" >>,
      << "barrier_create_wait", "Barrier Signal" >>,
      << "mutex_lock_unlock", "Critical Section" >> }

\* the legend entries with a given label
SyncEntries(label) == { k \in DOMAIN syncLegendItems : syncLegendItems[k].label = label }

\* the supplied pairs of a given kind
PairsOfKind(kind) == { k \in DOMAIN ScenePairs : ScenePairs[k].pair_type = kind }

\* C21: once a render has completed, the synchronization legend holds
\* exactly one entry for each pair kind (mutex signal, barrier signal,
\* critical section) that occurs among the supplied event pairs, however
\* many pairs of the kind there are, no entry for a kind that does not
\* occur and no other entry; without event pairs it is empty.
C21_SyncLegendOnePerKind ==
    (scene.by # 0 /\ scene.error = Undefined) =>
        /\ \A kl \in PairKinds :
              Cardinality(SyncEntries(kl[2])) = IF PairsOfKind(kl[1]) = {} THEN 0 ELSE 1
        /\ \A k \in DOMAIN syncLegendItems :
              \E kl \in PairKinds : syncLegendItems[k].label = kl[2]
        /\ ScenePairs = << >> => syncLegendItems = << >>

\* C21 witness: a re-render of an analysis with two critical sections
\* left one "Critical Section" entry in the legend
C21_Witness ==
    /\ lastOp = "up"
    /\ renderLog # << >>
    /\ Cardinality(PairsOfKind("mutex_lock_unlock")) = 2
    /\ Len(syncLegendItems) = 1
    /\ syncLegendItems[1].label = "Critical Section"

\* whether a response body carries a backend error message
CarriesError(r) == IsJson(r.text) /\ Truthy(ParseJson(r.text).error)

\* C22: the promise ApiClient.analyze returned, once settled, is resolved
\* only for an ok response, with the parsed body; for a non-ok response it
\* is rejected, with an Error whose message is the body's error member when
\* the body carries one and an Error "HTTP error! Status: <status>..."
\* otherwise (a body that does not parse included); when fetch itself
\* failed it is rejected with the network error.
C22_AnalyzeSettlesByResponse ==
    api.phase = "settled" =>
        /\ api.promise.state \in {"resolved", "rejected"}
        /\ api.promise.state = "resolved" =>
              /\ api.response.ok
              /\ IsJson(api.response.text)
              /\ api.promise.value = ParseJson(api.response.text)
        /\ (api.response # NoResponse /\ ~api.response.ok) =>
              /\ api.promise.state = "rejected"
              /\ api.promise.reason.name = "Error"
              /\ IF CarriesError(api.response)
                 THEN api.promise.reason.message = ParseJson(api.response.text).error
                 ELSE /\ api.promise.reason.message = "HTTP error! Status:"
                      /\ api.promise.reason.status = api.response.status
        /\ api.response = NoResponse => api.promise = Rejected(NetworkError)

\* the tooltip a marker's mouseover writes
EventTip(m) ==
    [opacity |-> "1",
     html |-> << "event", m.event.timestamp, getShortName(scene.ds, m.event.job_id),
                 _cleanLogMessage(m.event.message) >>]

\* the positions of the children of a kind in the scene's paint order
PaintedAt(kind) == { n \in DOMAIN PaintOrder(scene) : PaintOrder(scene)[n].kind = kind }

\* C23: in every scene all rectangles come before all markers in paint
\* order, so at a point covered by a marker the topmost element is a
\* marker, also where a critical-section rectangle covers the point; and
\* while the pointer is over a marker the tooltip is visible and shows that
\* marker's event (timestamp, participant, cleaned message), not a
\* rectangle's key.
C23_MarkerAboveRectangles ==
    /\ \A r \in PaintedAt("rect") : \A m \in PaintedAt("marker") : r < m
    /\ \A k \in DOMAIN scene.markers : \A x \in Pixels :
          OverMarker(scene, k, x) =>
              \E c \in TopmostAt(scene, PaintOrder(scene), x) :
                  c.kind = "marker" /\ scene.markers[c.idx].cy = scene.markers[k].cy
    /\ ptrOn.kind = "marker" => scene.tooltip = EventTip(scene.markers[ptrOn.idx])

\* C23 witness: the pointer is over a marker at a point that a
\* critical-section rectangle covers too, and the tooltip shows the event
C23_Witness ==
    /\ ptrOn.kind = "marker"
    /\ \E j \in DOMAIN scene.rects :
          Covers(scene, Child("rect", j), ptrX, scene.markers[ptrOn.idx].cy)
    /\ scene.tooltip.html[1] = "event"

\* xScale at a time given as a rational
xScaleAt(vp, t) ==
    IF vp.e - vp.s = 0 THEN Rat(ChartWidth, 2)
    ELSE Rat((t.n * vp.d - vp.s * t.d) * ChartWidth, t.d * (vp.e - vp.s))

\* a position of the svg that lies inside the plot area
InsidePlot(x) == x >= MarginLeft /\ x <= MarginLeft + ChartWidth

\* the step is a release that commits the zoom of a drag whose two ends
\* lie inside the plot
CommitsInsidePlot ==
    /\ lastOp' = "up" /\ renderLog' = << 1 >>
    /\ InsidePlot(inst[1].startX) /\ InsidePlot(ptrX)

\* the ids of the markers of scene sc whose x lies in [a, b]
MarkersBetween(sc, a, b) ==
    { sc.markers[k].id : k \in { j \in DOMAIN sc.markers :
          RatLeq(RatOfInt(a), sc.markers[j].cx) /\ RatLeq(sc.markers[j].cx, RatOfInt(b)) } }

\* the scale of the viewport old maps the committed viewport's start to a
\* and its end to b
ScaleInverted(old, a, b) ==
    /\ xScaleAt(old, Rat(inst'[1].cur.s, inst'[1].cur.d)) = RatOfInt(a)
    /\ xScaleAt(old, Rat(inst'[1].cur.e, inst'[1].cur.d)) = RatOfInt(b)

\* the markers of the new scene are those of the old scene with x in [a, b]
MarkersKept(a, b) ==
    { scene'.markers[k].id : k \in DOMAIN scene'.markers } = MarkersBetween(scene, a, b)

\* the span of the drag that the release at ptrX ends, in plot coordinates
SpanStart == Min2(inst[1].startX, ptrX) - MarginLeft
SpanEnd == Max2(inst[1].startX, ptrX) - MarginLeft

Drawn(sc) ==
    [sc EXCEPT !.markers = [k \in DOMAIN @ |-> [@[k] EXCEPT !.faded = FALSE]],
               !.arrows = [k \in DOMAIN @ |-> [@[k] EXCEPT !.display = "none"]],
               !.rects = [k \in DOMAIN @ |-> [@[k] EXCEPT !.opacity = "css"]],
               !.tooltip = HiddenTooltip,
               !.selections = {}]

\* the step is a press or a move
PressOrMove == lastOp' \in {"down", "move"}

\* C25: a pointer press or move, with no release, leaves the current
\* viewport and the full bounds of every closure, what the last render drew
\* and the reset control's visibility unchanged, and renders nothing; a
\* press, or a move that stays on the same element, changes nothing in the
\* container but the selection overlay.
C25_DragKeepsViewAndScene ==
    [][ PressOrMove =>
            /\ \A i \in DOMAIN inst :
                  inst'[i].cur = inst[i].cur /\ inst'[i].full = inst[i].full
            /\ Drawn(scene') = Drawn(scene)
            /\ resetDisplay' = resetDisplay
            /\ renderLog' = << >>
            /\ SameElement(ptrOn, ptrOn') =>
                  [scene' EXCEPT !.selections = {}] = [scene EXCEPT !.selections = {}] ]_vars

\* C25 witness: a drag is in progress on a zoomed view, the pointer has
\* moved at least the threshold away from the press and no release followed
C25_Witness ==
    /\ lastOp = "move" /\ btn = "down"
    /\ inst[1].isDragging /\ inst[1].selectionRect # NoNode
    /\ inst[1].selectionRect[2] >= DragThreshold
    /\ inst[1].cur # inst[1].full

\* the step moves the pointer onto a rectangle it was not on
EntersRect == lastOp' = "move" /\ ptrOn'.kind = "rect" /\ ~SameElement(ptrOn, ptrOn')

\* the tooltip a rectangle's mouseover writes
SectionTip(r) == [opacity |-> "1", html |-> << "Critical Section", r.pairName >>]

\* C26: when the pointer enters a rectangle the tooltip becomes visible and
\* names the rectangle's pairing key, and nothing else changes: coming from
\* anything but a marker, the fade flag of every marker, the display of
\* every arrow, the opacity of every rectangle and the synchronization
\* legend's display are as before; coming from a marker (whose mouseout
\* runs first) they are those of the Idle state, so entering a rectangle
\* starts no trace.
C26_RectangleEnterOnlyTooltip ==
    [][ EntersRect =>
            /\ scene'.tooltip = SectionTip(scene.rects[ptrOn'.idx])
            /\ [scene' EXCEPT !.tooltip = HiddenTooltip, !.markers = << >>,
                              !.arrows = << >>, !.rects = << >>]
                 = [scene EXCEPT !.tooltip = HiddenTooltip, !.markers = << >>,
                                 !.arrows = << >>, !.rects = << >>]
            /\ IF ptrOn.kind = "marker"
               THEN /\ IdleScene(scene') /\ syncLegendDisplay' = "none"
                    /\ Drawn(scene') = Drawn(scene)
               ELSE /\ scene'.markers = scene.markers
                    /\ scene'.arrows = scene.arrows
                    /\ scene'.rects = scene.rects
                    /\ syncLegendDisplay' = syncLegendDisplay ]_vars

\* C26 witness: the pointer has just entered a rectangle of a scene that
\* has an arrow, and the tooltip names the rectangle's key
C26_Witness ==
    /\ lastOp = "move" /\ ptrOn.kind = "rect"
    /\ scene.tooltip = SectionTip(scene.rects[ptrOn.idx])
    /\ scene.rects[ptrOn.idx].pairName # Undefined
    /\ scene.arrows # << >>

\* the step moves the pointer onto a marker it was not on
EntersMarker == lastOp' = "move" /\ ptrOn'.kind = "marker" /\ ~SameElement(ptrOn, ptrOn')

\* the last token of a message, its text
TextOf(msg) == IF msg = << >> THEN Undefined ELSE msg[Len(msg)]

\* tip is visible and shows the timestamp of marker m's event, the label
\* of the lane m lies on and the event's message without escape sequences
\* and without the leading log prefix
ShowsEvent(tip, m, lanes) ==
    /\ tip.opacity = "1"
    /\ tip.html[1] = "event"
    /\ tip.html[2] = m.event.timestamp
    /\ \E l \in DOMAIN lanes : lanes[l].y = m.cy /\ lanes[l].label = tip.html[3]
    /\ \A n \in DOMAIN tip.html[4] : tip.html[4][n] \notin {"ansi", "prefix"}
    /\ TextOf(tip.html[4]) = TextOf(m.event.message)

\* C27: when the pointer enters a marker the tooltip becomes visible and
\* shows the event's timestamp, participant label and cleaned message,
\* with or without a pairing key; when the event has no pairing key the
\* state is Idle afterwards: no marker is faded, no arrow is displayed, no
\* rectangle is highlighted and the synchronization legend is not shown:
\* an Idle state stays Idle, coming from anything but a marker nothing but
\* the tooltip changes, and coming from a marker (whose mouseout runs
\* first) the state is Idle afterwards.
C27_MarkerEnterAlwaysTooltip ==
    [][ EntersMarker =>
            /\ ShowsEvent(scene'.tooltip, scene.markers[ptrOn'.idx], scene.lifelines)
            /\ MarkerKey(scene.markers[ptrOn'.idx]) = Undefined =>
                  /\ Idle => Idle'
                  /\ IF ptrOn.kind = "marker"
                     THEN IdleScene(scene') /\ syncLegendDisplay' = "none"
                     ELSE /\ [scene' EXCEPT !.tooltip = HiddenTooltip]
                               = [scene EXCEPT !.tooltip = HiddenTooltip]
                          /\ syncLegendDisplay' = syncLegendDisplay ]_vars

\* C27 witness: the pointer has just entered a marker whose event has no
\* pairing key, in a scene that has keyed markers, arrows and rectangles,
\* and the tooltip shows the event with its message cleaned
C27_Witness ==
    /\ lastOp = "move" /\ ptrOn.kind = "marker"
    /\ MarkerKey(scene.markers[ptrOn.idx]) = Undefined
    /\ ShowsEvent(scene.tooltip, scene.markers[ptrOn.idx], scene.lifelines)
    /\ "ansi" \in { scene.markers[ptrOn.idx].event.message[n] :
                       n \in DOMAIN scene.markers[ptrOn.idx].event.message }
    /\ \E k \in DOMAIN scene.markers : MarkerKey(scene.markers[k]) # Undefined
    /\ scene.rects # << >>

\* the timestamp ts lies outside the viewport the scene was rendered for
OutsideView(ts) == ts * scene.vp.d < scene.vp.s \/ ts * scene.vp.d > scene.vp.e

\* the job has no marker in the scene
Unseen(job) == \A k \in DOMAIN scene.markers : scene.markers[k].event.job_id # job

\* the pairs with an endpoint outside the rendered viewport, or of a job
\* without an event in view
OutOfViewPairs ==
    { k \in DOMAIN ScenePairs :
         \/ OutsideView(ScenePairs[k].start_event.timestamp)
         \/ OutsideView(ScenePairs[k].end_event.timestamp)
         \/ Unseen(ScenePairs[k].start_event.job_id)
         \/ Unseen(ScenePairs[k].end_event.job_id) }

\* C28: in a scene rendered after a zoom, a pair with an endpoint whose
\* timestamp lies outside the viewport, or whose job has no event in view,
\* is skipped with a warning: the scene holds no arrow and no rectangle
\* for it and a warning names it.
C28_OutOfViewPairSkipped ==
    (zoomDepth > 0 /\ scene.by # 0) =>
        \A k \in OutOfViewPairs :
            /\ ArrowsFor(k) = {}
            /\ RectsFor(k) = {}
            /\ k \in scene.warnings

\* the timestamps of the events of the scene's analysis
SceneTimes == { SceneEvents[n].timestamp : n \in DOMAIN SceneEvents }

\* C29: for every rendered scene whose viewport is not degenerate the
\* scale maps the viewport's start to 0, its end to the plot width and its
\* midpoint to half the width, is non-decreasing in the timestamp, and
\* every marker of the scene has 0 <= x <= width.
C29_ScaleLinearOntoPlot ==
    (scene.by # 0 /\ scene.vp.s # scene.vp.e) =>
        /\ xScaleAt(scene.vp, Rat(scene.vp.s, scene.vp.d)) = RatOfInt(0)
        /\ xScaleAt(scene.vp, Rat(scene.vp.e, scene.vp.d)) = RatOfInt(ChartWidth)
        /\ xScaleAt(scene.vp, Rat(scene.vp.s + scene.vp.e, 2 * scene.vp.d)) = Rat(ChartWidth, 2)
        /\ \A t, u \in SceneTimes :
              t <= u => RatLeq(xScale(scene.vp, t), xScale(scene.vp, u))
        /\ \A k \in DOMAIN scene.markers :
              /\ scene.markers[k].cx = xScale(scene.vp, scene.markers[k].event.timestamp)
              /\ RatLeq(RatOfInt(0), scene.markers[k].cx)
              /\ RatLeq(scene.markers[k].cx, RatOfInt(ChartWidth))

\* the timestamps of the events analysis ds supplies
TimesOf(ds) == { AllEvents(ds)[n].timestamp : n \in DOMAIN AllEvents(ds) }

MinOf(S) == CHOOSE t \in S : \A u \in S : t <= u
MaxOf(S) == CHOOSE t \in S : \A u \in S : u <= t

\* C30: the full bounds of every closure are [min, max] of the timestamps
\* of all the events it was initialized with, which is [first, last] of
\* the list, in every state (so they never change after the
\* initialization), and right after an initialization the current
\* viewport is the full one.
C30_FullBoundsAreMinMax ==
    /\ \A i \in DOMAIN inst :
          /\ inst[i].full = Viewport(MinOf(TimesOf(inst[i].ds)), MaxOf(TimesOf(inst[i].ds)), 1)
          /\ inst[i].full.s = AllEvents(inst[i].ds)[1].timestamp
          /\ inst[i].full.e = AllEvents(inst[i].ds)[Len(AllEvents(inst[i].ds))].timestamp
          /\ inst[i].full.d = 1
    /\ lastOp = "init" => Latest.cur = Latest.full

\* C30 witness: the timeline was initialized twice and a closure has zoomed
\* since, on an analysis with events strictly between the bounds
C30_Witness ==
    /\ Len(inst) = 2
    /\ lastOp = "up"
    /\ \E i \in DOMAIN inst :
          /\ inst[i].cur # inst[i].full
          /\ \E t \in TimesOf(inst[i].ds) : inst[i].full.s < t /\ t < inst[i].full.e

\* the composite key of an event
KeyOf(e) == << e.job_id, e.log_index >>

\* no two events of the scene's analysis have the same composite key
KeysDistinct ==
    \A m, n \in DOMAIN SceneEvents : m # n => KeyOf(SceneEvents[m]) # KeyOf(SceneEvents[n])

\* C31: in every rendered scene, when the events have distinct
\* (job_id, log_index) keys no two markers share an identifier, and a
\* marker has the identifier the marker of the same event had in the first
\* render (an event keeps its identifier across re-renders).
C31_MarkerIdsStable ==
    scene.by # 0 =>
        /\ KeysDistinct =>
              \A k, j \in DOMAIN scene.markers :
                  k # j => scene.markers[k].id # scene.markers[j].id
        /\ \A k \in DOMAIN scene.markers : \A j \in DOMAIN initScene.markers :
              scene.markers[k].event = initScene.markers[j].event =>
                  scene.markers[k].id = initScene.markers[j].id

\* C31 witness: a scene re-rendered by a zoom shows two events whose job
\* ids and log positions have the same digits when written one after the
\* other (job 1 position 12, job 11 position 2)
C31_Witness ==
    /\ lastOp = "up" /\ renderLog # << >>
    /\ \E k, j \in DOMAIN scene.markers :
          /\ scene.markers[k].event.job_id = "1" /\ scene.markers[k].event.log_index = 12
          /\ scene.markers[j].event.job_id = "11" /\ scene.markers[j].event.log_index = 2
          /\ scene.markers[k].id # scene.markers[j].id

\* the row element a reference stands for
RowAt(p, ref) == p.details.sections[ref.sec].rows[ref.row]

\* the row a fragment link leads to (NoRow when no element has the id)
Resolve(p, href) == getElementById(p, Tail(href), RowsWithId(p, Tail(href)))

\* the job of the displayed response that section si was built from
JobOf(p, si) ==
    CHOOSE j \in { JobsOf(p.body[p.details.from])[n] :
                     n \in DOMAIN JobsOf(p.body[p.details.from]) } :
        j.id = p.details.sections[si].job

\* the rows of the sections with the given title
RowsOf(p, title) ==
    { RowRef(p.gen, sr[1], sr[2]) :
        sr \in { x \in UNION { { << si, ri >> : ri \in DOMAIN p.details.sections[si].rows } :
                                 si \in DOMAIN p.details.sections } :
                   p.details.sections[x[1]].title = title } }

\* the log rows of the entries of type exception
ExceptionLogRows(p) ==
    { l \in RowsOf(p, "autoinst-log") : JobOf(p, l.sec).log.entries[l.row].type = "exception" }

\* the exception rows whose back-link leads to the log row l
BackLinksTo(p, l) ==
    { x \in RowsOf(p, "Exceptions") : Resolve(p, RowAt(p, x).href) = l }

\* C32: for every log entry of type exception there is exactly one exception
\* row whose back-link leads to the entry's log row, and the log row's link
\* leads to that exception row; every exception row's back-link leads to a
\* log row of an exception whose link leads back to it (round trip in both
\* directions, for every job of the response).
C32_LinksRoundTrip ==
    /\ \A l \in ExceptionLogRows(page) :
          /\ Cardinality(BackLinksTo(page, l)) = 1
          /\ RowAt(page, l).href # NoHref
          /\ Resolve(page, RowAt(page, l).href) \in BackLinksTo(page, l)
    /\ \A x \in RowsOf(page, "Exceptions") :
          /\ Resolve(page, RowAt(page, x).href) \in ExceptionLogRows(page)
          /\ Resolve(page, RowAt(page, Resolve(page, RowAt(page, x).href)).href) = x

\* C32 witness: a response with three exceptions in two jobs is displayed
\* and a back-link was just followed to the log row of an exception
C32_Witness ==
    /\ page.details.content = "jobs"
    /\ Cardinality(ExceptionLogRows(page)) = 3
    /\ page.lastOp = "link"
    /\ page.highlightedRow \in ExceptionLogRows(page)
    /\ RowAt(page, page.highlightedRow).highlighted

\* C33 (as stated): the Exceptions section is rendered from the exceptions
\* supplied with the job: as many rows as the job's exceptions list has
\* entries, each showing the message of its entry and linking back to the
\* log row of the entry's log_index.
C33_ExceptionsFromSupplied ==
    page.details.content = "jobs" =>
        \A si \in DOMAIN page.details.sections :
            page.details.sections[si].title = "Exceptions" =>
                /\ Len(page.details.sections[si].rows) = Len(JobOf(page, si).exceptions)
                /\ \A k \in DOMAIN page.details.sections[si].rows :
                      k \in DOMAIN JobOf(page, si).exceptions =>
                          /\ page.details.sections[si].rows[k].pre
                                = JobOf(page, si).exceptions[k].message
                          /\ page.details.sections[si].rows[k].href
                                = Href(LogRowId(page.details.sections[si].job,
                                                JobOf(page, si).exceptions[k].log_index))

\* C34 (as stated): the reset control is visible exactly when a zoom was
\* committed since the last reset or the last initialization: it is visible
\* whenever the current viewport differs from the full one and whenever a
\* zoom was committed in the only closure since the last reset, and hidden
\* when no zoom was committed since the last reset and right after every
\* (re-)initialization.
C34_ResetVisibleIffZoomed ==
    /\ Latest.cur # Latest.full => resetDisplay = "inline-block"
    /\ (Len(inst) = 1 /\ zoomDepth > 0) => resetDisplay = "inline-block"
    /\ zoomDepth = 0 => resetDisplay = "none"
    /\ lastOp = "init" => resetDisplay = "none"

\* C35 (as stated): the container holds at most one selection rectangle,
\* it holds one only while a drag is in progress, and after every release
\* no selection rectangle remains, no closure is dragging and no closure
\* has its document-level move/release listeners attached.
C35_SelectionTransient ==
    /\ Cardinality(scene.selections) <= 1
    /\ scene.selections # {} => (btn = "down" /\ \E i \in DOMAIN inst : inst[i].isDragging)
    /\ lastOp = "up" =>
          /\ scene.selections = {}
          /\ \A i \in DOMAIN inst : ~inst[i].isDragging /\ ~inst[i].docListeners

C37_LastSubmissionWins ==
    (page.submitted >= 1 /\ page.pending = {}) =>
        /\ page.details.from = page.submitted
        /\ page.timeline.from \in {0, page.submitted}
        /\ \A k \in DOMAIN page.debugLog : page.debugLog[k].from = page.submitted

\* the rows of the document that carry the highlight
HighlightedRows(p) ==
    { r \in RowsOf(p, "autoinst-log") \cup RowsOf(p, "Exceptions") : RowAt(p, r).highlighted }

\* the log section that holds the highlighted row r is collapsed by the step
CollapsesLogSectionOf(r) ==
    /\ page'.lastOp \in {"toggle", "toggleAll"}
    /\ page.details.sections[r.sec].title = "autoinst-log"
    /\ page.details.sections[r.sec].open
    /\ ~page'.details.sections[r.sec].open

ArrowsOfFamily(family) ==
    UNION { ArrowsFor(k) : k \in { j \in DOMAIN ScenePairs : PairCategory(j) = family } }

\* C39 (as stated): in every rendered scene the synchronization legend has
\* a Mutex Signal entry exactly when the scene holds an arrow of the mutex
\* family, a Barrier Signal entry exactly when it holds an arrow of the
\* barrier family and a Critical Section entry exactly when it holds a
\* rectangle, whatever the kinds of the supplied pairs.
C39_SyncLegendMatchesScene ==
    scene.by # 0 =>
        /\ SyncEntries("Mutex Signal") # {} <=> ArrowsOfFamily("mutex") # {}
        /\ SyncEntries("Barrier Signal") # {} <=> ArrowsOfFamily("barrier") # {}
        /\ SyncEntries("Critical Section") # {} <=> scene.rects # << >>

====
